---------------------------- MODULE Spec2Model ----------------------------
(***************************************************************************)
(* A model of structs.go of the discordgo package: the permission and      *)
(* intent bit-flag tables, the mention helpers, and the custom JSON        *)
(* decoders of TimeStamps, TooManyRequests and Activity.                   *)
(*                                                                         *)
(* Integers wider than TLC's 32-bit integers (64-bit masks, int64          *)
(* nanosecond durations, float64 mantissas) are bit vectors: sequences of  *)
(* 0/1, least significant bit first, without leading (high) zeros.         *)
(***************************************************************************)
EXTENDS Integers, Sequences, FiniteSets, TLC

(***************************************************************************)
(* Unbounded naturals as bit vectors                                       *)
(***************************************************************************)

\* b without its high zero bits (the canonical form; zero is << >>), a byte
\* of zeros at a time where there is one.
RECURSIVE Norm(_)
Norm(b) ==
    IF b = << >> THEN << >>
    ELSE IF b[Len(b)] = 1 THEN b
    ELSE IF Len(b) >= 8 /\ \A i \in (Len(b) - 7)..Len(b) : b[i] = 0
         THEN Norm(SubSeq(b, 1, Len(b) - 8))
    ELSE Norm(SubSeq(b, 1, Len(b) - 1))

\* Bit i (0 is the least significant) of b.
BitAt(b, i) == IF i + 1 <= Len(b) THEN b[i + 1] ELSE 0

\* The positions of the bits set in b.
BitSet(b) == {i \in 0..(Len(b) - 1) : b[i + 1] = 1}

MaxOf(x, y) == IF x >= y THEN x ELSE y

\* A small natural (below 2^31) as a bit vector.
FromNat(n) == Norm([i \in 1..31 |-> (n \div (2 ^ (i - 1))) % 2])

\* x << n
Shl(b, n) == IF b = << >> THEN << >> ELSE [i \in 1..n |-> 0] \o b

\* x >> n
Shr(b, n) == IF n >= Len(b) THEN << >> ELSE SubSeq(b, n + 1, Len(b))

\* The low byte of b, as a number.
LowByte(b) ==
    BitAt(b, 0) + 2 * BitAt(b, 1) + 4 * BitAt(b, 2) + 8 * BitAt(b, 3)
    + 16 * BitAt(b, 4) + 32 * BitAt(b, 5) + 64 * BitAt(b, 6) + 128 * BitAt(b, 7)

\* The eight bits of a number below 256.
ByteBits(n) == [i \in 1..8 |-> (n \div (2 ^ (i - 1))) % 2]

\* x + y + c, a byte at a time with the carry c.
RECURSIVE AddC(_, _, _)
AddC(a, b, c) ==
    IF a = << >> /\ b = << >> THEN (IF c = 0 THEN << >> ELSE <<c>>)
    ELSE LET s == LowByte(a) + LowByte(b) + c
         IN  ByteBits(s % 256) \o AddC(Shr(a, 8), Shr(b, 8), s \div 256)

Add(a, b) == Norm(AddC(a, b, 0))

\* x * y restricted to the bits lo..hi of y: the sum of the shifted copies of x.
RECURSIVE MulBits(_, _, _, _)
MulBits(a, b, lo, hi) ==
    IF lo = hi THEN (IF BitAt(b, lo) = 1 THEN Shl(a, lo) ELSE << >>)
    ELSE LET mid == (lo + hi) \div 2
         IN  Add(MulBits(a, b, lo, mid), MulBits(a, b, mid + 1, hi))

\* x * y, by shift and add.
Mul(a, b) ==
    IF a = << >> \/ b = << >> THEN << >> ELSE MulBits(a, b, 0, Len(b) - 1)

\* x < y, on canonical bit vectors.
LessBits(a, b) ==
    IF Len(a) # Len(b) THEN Len(a) < Len(b)
    ELSE \E i \in 1..Len(a) :
            /\ a[i] < b[i]
            /\ \A j \in (i + 1)..Len(a) : a[j] = b[j]

LeqBits(a, b) == a = b \/ LessBits(a, b)

\* x - y - c for x >= y + c, a byte at a time with the borrow c.
RECURSIVE SubC(_, _, _)
SubC(a, b, c) ==
    IF a = << >> THEN << >>
    ELSE LET d == LowByte(a) - LowByte(b) - c
         IN  ByteBits(d % 256) \o SubC(Shr(a, 8), Shr(b, 8), IF d < 0 THEN 1 ELSE 0)

Sub(a, b) == Norm(SubC(a, b, 0))

\* base^n
RECURSIVE BasePow(_, _)
BasePow(base, n) ==
    IF n = 0 THEN <<1>> ELSE Mul(BasePow(base, n - 1), FromNat(base))

\* A literal written in base `base`, most significant digit first.
RECURSIVE FromDigits(_, _)
FromDigits(ds, base) ==
    IF ds = << >> THEN << >>
    ELSE IF Len(ds) = 1 THEN FromNat(ds[1])
    ELSE LET h == Len(ds) \div 2
         IN  Add(Mul(FromDigits(SubSeq(ds, 1, Len(ds) - h), base), BasePow(base, h)),
                 FromDigits(SubSeq(ds, Len(ds) - h + 1, Len(ds)), base))

\* A Go hexadecimal literal 0x..., digit by digit.
Hex(ds) == FromDigits(ds, 16)

\* A decimal literal, digit by digit.
Dec(ds) == FromDigits(ds, 10)

\* Go's x | y.
BitOr(a, b) ==
    Norm([i \in 1..MaxOf(Len(a), Len(b)) |->
            IF BitAt(a, i - 1) = 1 \/ BitAt(b, i - 1) = 1 THEN 1 ELSE 0])

\* Go's x & y.
BitAnd(a, b) ==
    Norm([i \in 1..MaxOf(Len(a), Len(b)) |->
            IF BitAt(a, i - 1) = 1 /\ BitAt(b, i - 1) = 1 THEN 1 ELSE 0])

\* x | y | ... over a sequence of operands, left to right as Go evaluates it.
RECURSIVE OrAll(_)
OrAll(s) == IF s = << >> THEN << >>
            ELSE BitOr(OrAll(SubSeq(s, 1, Len(s) - 1)), s[Len(s)])

(***************************************************************************)
(* Signed integers and Go's int64                                          *)
(***************************************************************************)

\* A signed integer: sign and magnitude (zero is never negative).
Signed(neg, mag) == [neg |-> neg /\ mag # << >>, mag |-> mag]

IntZero == Signed(FALSE, << >>)

\* x + y on signed integers.
SAdd(x, y) ==
    IF x.neg = y.neg THEN Signed(x.neg, Add(x.mag, y.mag))
    ELSE IF LessBits(x.mag, y.mag) THEN Signed(y.neg, Sub(y.mag, x.mag))
    ELSE Signed(x.neg, Sub(x.mag, y.mag))

\* x * y on signed integers.
SMul(x, y) == Signed(x.neg # y.neg, Mul(x.mag, y.mag))

\* The width of int64.
Int64Bits == 64

TwoTo63 == Shl(<<1>>, Int64Bits - 1)
TwoTo64 == Shl(<<1>>, Int64Bits)

MaxInt64 == Signed(FALSE, Sub(TwoTo63, <<1>>))
MinInt64 == Signed(TRUE, TwoTo63)

\* Whether the integer x is a value of int64.
FitsInt64(x) == IF x.neg THEN LeqBits(x.mag, TwoTo63) ELSE LessBits(x.mag, TwoTo63)

\* The int64 that an int64 operation with the exact result x yields: x modulo
\* 2^64, in two's complement.
Wrap64(x) ==
    LET low == Norm(SubSeq(x.mag, 1, IF Len(x.mag) < Int64Bits THEN Len(x.mag) ELSE Int64Bits))
        u   == IF x.neg /\ low # << >> THEN Sub(TwoTo64, low) ELSE low
    IN  IF LessBits(u, TwoTo63) THEN Signed(FALSE, u)
        ELSE Signed(TRUE, Sub(TwoTo64, u))

\* Go's x * y and x + y on int64 (overflow wraps around).
Mul64(x, y) == Wrap64(SMul(x, y))
Add64(x, y) == Wrap64(SAdd(x, y))

(***************************************************************************)
(* Go's float64 (IEEE 754 binary64), for finite values in the normal range *)
(***************************************************************************)

\* The number of trailing (low) zero bits of a non-zero bit vector.
TrailingZeros(b) ==
    IF b = << >> THEN 0
    ELSE (CHOOSE i \in 1..Len(b) : b[i] = 1 /\ \A j \in 1..(i - 1) : b[j] = 0) - 1

\* The float (-1)^neg * man * 2^exp, in canonical form: man odd, or zero.
Float(neg, man, exp) ==
    IF man = << >> THEN [neg |-> neg, man |-> << >>, exp |-> 0]
    ELSE LET tz == TrailingZeros(man)
         IN  [neg |-> neg, man |-> Shr(man, tz), exp |-> exp + tz]

FloatZero == Float(FALSE, << >>, 0)

\* The precision of float64: 53 significant bits.
MantissaBits == 53

\* Whether any of the n low bits of b is set.
AnyLowBit(b, n) == \E i \in 1..n : i <= Len(b) /\ b[i] = 1

\* The float64 nearest to man * 2^exp (plus a little more when `sticky`),
\* ties to even: IEEE 754 round-to-nearest-even to 53 significant bits.
RoundToFloat64(neg, man, exp, sticky) ==
    IF Len(man) <= MantissaBits THEN Float(neg, man, exp)
    ELSE LET d      == Len(man) - MantissaBits
             kept   == Shr(man, d)
             half   == man[d] = 1
             below  == sticky \/ AnyLowBit(man, d - 1)
             up     == half /\ (below \/ kept[1] = 1)
         IN  Float(neg, IF up THEN Add(kept, <<1>>) ELSE kept, exp + d)

\* The number a digit string (most significant first) writes, for short strings.
RECURSIVE DigitsValue(_)
DigitsValue(ds) ==
    IF ds = << >> THEN 0
    ELSE 10 * DigitsValue(SubSeq(ds, 1, Len(ds) - 1)) + ds[Len(ds)]

RECURSIVE Pow10(_)
Pow10(n) == IF n = 0 THEN 1 ELSE 10 * Pow10(n - 1)

\* Binary long division: the bits of acc + r/d to the right of acc, until the
\* quotient has two bits more than a float64 holds or the division ends.
\* Gives the quotient, the number of bits after the binary point, and
\* whether a remainder is left.
RECURSIVE DivideOut(_, _, _, _)
DivideOut(r, d, acc, k) ==
    IF r = 0 \/ Len(Norm(acc)) >= MantissaBits + 2
    THEN [q |-> Norm(acc), fracBits |-> k, sticky |-> r # 0]
    ELSE LET b == IF 2 * r >= d THEN 1 ELSE 0
         IN  DivideOut(2 * r - b * d, d, <<b>> \o acc, k + 1)

\* strconv.ParseFloat(s, 64) on the decimal literal [-]int.frac: the float64
\* nearest to the decimal value, ties to even.
ParseFloat(num) ==
    LET div == DivideOut(DigitsValue(num.frac), Pow10(Len(num.frac)), num.int, 0)
    IN  RoundToFloat64(num.neg, div.q, 0 - div.fracBits, div.sticky)

\* The magnitude of f truncated to an integer.
TruncMag(f) == IF f.exp >= 0 THEN Shl(f.man, f.exp) ELSE Shr(f.man, 0 - f.exp)

\* math.Modf(f): the integer part and the fractional part of f, both with
\* the sign of f, both exact.
Modf(f) ==
    IF f.exp >= 0 THEN [whole |-> f, frac |-> Float(f.neg, << >>, 0)]
    ELSE [whole |-> Float(f.neg, Shr(f.man, 0 - f.exp), 0),
          frac  |-> Float(f.neg,
                          Norm(SubSeq(f.man, 1, IF Len(f.man) < 0 - f.exp
                                                THEN Len(f.man) ELSE 0 - f.exp)),
                          f.exp)]

\* x * y on float64: the exact product, rounded to nearest even.
FMul(x, y) == RoundToFloat64(x.neg # y.neg, Mul(x.man, y.man), x.exp + y.exp, FALSE)

\* An integer as a float64 (exact below 2^53).
FloatOfNat(n) == RoundToFloat64(FALSE, FromNat(n), 0, FALSE)

\* The conversion int64(x) that rounds to the nearest integer instead.
RoundFloat64ToInt64(f) ==
    LET t    == TruncMag(f)
        half == f.exp < 0 /\ 0 - f.exp <= Len(f.man) /\ f.man[0 - f.exp] = 1
    IN  {Signed(f.neg, IF half THEN Add(t, <<1>>) ELSE t)}

\* The conversion int64(f) of a float64: the value truncated toward zero when
\* it fits; otherwise the result is implementation-dependent: the minimum
\* int64 on amd64, the nearest bound of int64 on arm64.
Float64ToInt64(f) ==
    LET t == Signed(f.neg, TruncMag(f))
    IN  IF FitsInt64(t) THEN {t}
        ELSE {MinInt64, IF f.neg THEN MinInt64 ELSE MaxInt64}

(***************************************************************************)
(* encoding/json, as far as the decoders of this file use it               *)
(***************************************************************************)

\* A JSON value in a document: its type and what it holds.  A number holds
\* its decimal literal [-]int.frac: the sign, the integer part, and the
\* digits after the point.
JAbsent == [t |-> "absent", v |-> << >>]
JNull == [t |-> "null", v |-> << >>]
JNumber(neg, int, frac) == [t |-> "number", v |-> [neg |-> neg, int |-> int, frac |-> frac]]
JString(str) == [t |-> "string", v |-> str]
JBool(b) == [t |-> "bool", v |-> b]
JObject(o) == [t |-> "object", v |-> o]
JArray == [t |-> "array", v |-> << >>]

\* The errors of json.Unmarshal; NoError is Go's nil error.
NoError == "nil"
SyntaxError == "json.SyntaxError"
UnmarshalTypeError == "json.UnmarshalTypeError"

\* A key that is absent, or whose value is null, leaves the field alone.
Skipped(jv) == jv.t \in {"absent", "null"}

\* json.Unmarshal of one value into a float64 field that holds zero.
DecodeFloat64(jv) ==
    IF jv.t = "number" THEN [err |-> NoError, val |-> ParseFloat(jv.v)]
    ELSE IF Skipped(jv) THEN [err |-> NoError, val |-> FloatZero]
    ELSE [err |-> UnmarshalTypeError, val |-> FloatZero]

\* json.Unmarshal of one value into a string field that holds "".
DecodeString(jv) ==
    IF jv.t = "string" THEN [err |-> NoError, val |-> jv.v]
    ELSE IF Skipped(jv) THEN [err |-> NoError, val |-> ""]
    ELSE [err |-> UnmarshalTypeError, val |-> ""]

\* The error json.Unmarshal returns for a struct: a syntax error before
\* anything is stored; otherwise the first type error met, after the rest of
\* the document has been decoded all the same.
RECURSIVE FirstError(_)
FirstError(errs) ==
    IF errs = << >> THEN NoError
    ELSE IF Head(errs) # NoError THEN Head(errs)
    ELSE FirstError(Tail(errs))

StructError(doc, fieldErrs) ==
    CASE doc.top = "invalid" -> SyntaxError
      [] doc.top = "null" -> NoError
      [] doc.top = "object" -> FirstError(fieldErrs)
      [] OTHER -> UnmarshalTypeError

\* Whether the document's members are stored into the struct at all.
HasMembers(doc) == doc.top = "object"

(***************************************************************************)
(* TimeStamps                                                              *)
(***************************************************************************)

\* json.Unmarshal(b, &temp) for the shadow struct of TimeStamps.UnmarshalJSON.
TimeStampsShadow(doc) ==
    LET e == DecodeFloat64(IF HasMembers(doc) THEN doc.end ELSE JAbsent)
        s == DecodeFloat64(IF HasMembers(doc) THEN doc.start ELSE JAbsent)
    IN  [err |-> StructError(doc, <<s.err, e.err>>), End |-> e.val, Start |-> s.val]

\* t.EndTimestamp = int64(temp.End); t.StartTimestamp = int64(temp.Start)
TimeStampsOf(temp) ==
    {[EndTimestamp |-> e, StartTimestamp |-> s] :
        e \in Float64ToInt64(temp.End), s \in Float64ToInt64(temp.Start)}

\* A decoder that drops the error of json.Unmarshal and converts what the
\* shadow struct holds all the same.
TimeStampsUnmarshalJSONDroppingError(t, doc) ==
    {[err |-> NoError, t |-> t2] : t2 \in TimeStampsOf(TimeStampsShadow(doc))}

\* A decoder that decodes into the receiver itself: a field whose key is
\* missing keeps what it held.
TimeStampsUnmarshalJSONMerging(t, doc) ==
    LET temp == TimeStampsShadow(doc)
    IN  IF temp.err # NoError THEN {[err |-> temp.err, t |-> t]}
        ELSE {[err |-> NoError,
               t |-> [EndTimestamp |->
                          IF HasMembers(doc) /\ doc.end.t = "absent"
                          THEN t.EndTimestamp ELSE t2.EndTimestamp,
                      StartTimestamp |->
                          IF HasMembers(doc) /\ doc.start.t = "absent"
                          THEN t.StartTimestamp ELSE t2.StartTimestamp]] :
                  t2 \in TimeStampsOf(temp)}

\* func (t *TimeStamps) UnmarshalJSON(b []byte) error: the error returned and
\* the receiver afterwards, for each outcome the build can produce.
TimeStampsUnmarshalJSON(t, doc) ==
    LET temp == TimeStampsShadow(doc)
    IN  IF temp.err # NoError THEN {[err |-> temp.err, t |-> t]}
        ELSE {[err |-> NoError, t |-> t2] : t2 \in TimeStampsOf(temp)}

(***************************************************************************)
(* TooManyRequests                                                         *)
(***************************************************************************)

\* time.Second and time.Millisecond, in nanoseconds.
Second == Signed(FALSE, Dec(<<1,0,0,0,0,0,0,0,0,0>>))
Millisecond == Signed(FALSE, Dec(<<1,0,0,0,0,0,0>>))

\* json.Unmarshal(b, &u) for the shadow struct of TooManyRequests.UnmarshalJSON.
TooManyRequestsShadow(doc) ==
    LET b == DecodeString(IF HasMembers(doc) THEN doc.bucket ELSE JAbsent)
        m == DecodeString(IF HasMembers(doc) THEN doc.message ELSE JAbsent)
        r == DecodeFloat64(IF HasMembers(doc) THEN doc.retry_after ELSE JAbsent)
    IN  [err |-> StructError(doc, <<b.err, m.err, r.err>>),
         Bucket |-> b.val, Message |-> m.val, RetryAfter |-> r.val]

\* The fraction dropped: time.Duration(whole)*time.Second alone.
RetryAfterWholeSeconds(x) ==
    {Mul64(w, Second) : w \in Float64ToInt64(Modf(x).whole)}

\* The split that clamps a negative value at zero.
RetryAfterClampedAtZero(x) ==
    IF x.neg THEN {IntZero}
    ELSE {Add64(Mul64(w, Second), Mul64(ms, Millisecond)) :
            w \in Float64ToInt64(Modf(x).whole),
            ms \in Float64ToInt64(FMul(Modf(x).frac, FloatOfNat(1000)))}

\* whole, frac := math.Modf(x)
\* time.Duration(whole)*time.Second + time.Duration(frac*1000)*time.Millisecond
RetryAfterOf(x) ==
    LET parts == Modf(x)
    IN  {Add64(Mul64(w, Second), Mul64(ms, Millisecond)) :
            w \in Float64ToInt64(parts.whole),
            ms \in Float64ToInt64(FMul(parts.frac, FloatOfNat(1000)))}

\* A decoder that leaves RetryAfter alone when the document gives no
\* duration.
TooManyRequestsUnmarshalJSONKeepingOld(t, doc) ==
    LET u == TooManyRequestsShadow(doc)
    IN  IF u.err # NoError THEN {[err |-> u.err, t |-> t]}
        ELSE {[err |-> NoError,
               t |-> [Bucket |-> u.Bucket, Message |-> u.Message,
                      RetryAfter |-> IF d = IntZero THEN t.RetryAfter ELSE d]] :
                  d \in RetryAfterOf(u.RetryAfter)}

\* func (t *TooManyRequests) UnmarshalJSON(b []byte) error
TooManyRequestsUnmarshalJSON(t, doc) ==
    LET u == TooManyRequestsShadow(doc)
    IN  IF u.err # NoError THEN {[err |-> u.err, t |-> t]}
        ELSE {[err |-> NoError,
               t |-> [Bucket |-> u.Bucket, Message |-> u.Message, RetryAfter |-> d]] :
                  d \in RetryAfterOf(u.RetryAfter)}

(***************************************************************************)
(* Activity                                                                *)
(***************************************************************************)

\* The ActivityType constants.
ActivityTypeGame == 0
ActivityTypeStreaming == 1
ActivityTypeListening == 2
ActivityTypeWatching == 3
ActivityTypeCustom == 4
ActivityTypeCompeting == 5

KnownActivityTypes ==
    {ActivityTypeGame, ActivityTypeStreaming, ActivityTypeListening,
     ActivityTypeWatching, ActivityTypeCustom, ActivityTypeCompeting}

\* An integer decoder that takes the known enum values only.
DecodeIntClosedEnum(jv) ==
    IF jv.t = "number" /\ jv.v.frac = << >> /\ ~jv.v.neg
       /\ jv.v.int \in {FromNat(n) : n \in KnownActivityTypes}
    THEN [err |-> NoError, val |-> Signed(FALSE, jv.v.int)]
    ELSE IF jv.t \in {"absent", "null"} THEN [err |-> NoError, val |-> IntZero]
    ELSE [err |-> UnmarshalTypeError, val |-> IntZero]

\* json.Unmarshal of one value into an int or int64 field that holds zero:
\* a literal with a fraction, or outside int64, is a type error.
DecodeInt(jv) ==
    IF jv.t = "number"
    THEN IF jv.v.frac = << >> /\ FitsInt64(Signed(jv.v.neg, jv.v.int))
         THEN [err |-> NoError, val |-> Signed(jv.v.neg, jv.v.int)]
         ELSE [err |-> UnmarshalTypeError, val |-> IntZero]
    ELSE IF Skipped(jv) THEN [err |-> NoError, val |-> IntZero]
    ELSE [err |-> UnmarshalTypeError, val |-> IntZero]

\* json.Unmarshal of one value into a bool field that holds false.
DecodeBool(jv) ==
    IF jv.t = "bool" THEN [err |-> NoError, val |-> jv.v]
    ELSE IF Skipped(jv) THEN [err |-> NoError, val |-> FALSE]
    ELSE [err |-> UnmarshalTypeError, val |-> FALSE]

\* json.Unmarshal of one value into a field of a struct type without a
\* decoder of its own (Emoji, Party, Assets, Secrets): the struct the object
\* describes, or the zero struct.
ZeroStruct == "zero"

DecodeStruct(jv) ==
    IF jv.t = "object" THEN [err |-> NoError, val |-> jv.v]
    ELSE IF Skipped(jv) THEN [err |-> NoError, val |-> ZeroStruct]
    ELSE [err |-> UnmarshalTypeError, val |-> ZeroStruct]

ZeroTimeStamps == [EndTimestamp |-> IntZero, StartTimestamp |-> IntZero]

\* json.Unmarshal of one value into the Timestamps field: unless the key is
\* absent, TimeStamps.UnmarshalJSON is called with the value's text.
DecodeTimeStamps(jv) ==
    IF jv.t = "absent" THEN {[err |-> NoError, t |-> ZeroTimeStamps]}
    ELSE TimeStampsUnmarshalJSON(ZeroTimeStamps,
            IF jv.t = "object" THEN jv.v
            ELSE [top |-> jv.t, start |-> JAbsent, end |-> JAbsent])

ActivityFields ==
    <<"name", "type", "url", "created_at", "application_id", "state", "details",
      "timestamps", "emoji", "party", "assets", "secrets", "instance", "flags">>

\* The member of the document under a key (absent when there are no members).
JsonMember(doc, key) == IF HasMembers(doc) THEN doc.members[key] ELSE JAbsent

\* json.Unmarshal(b, &temp) for the shadow struct of Activity.UnmarshalJSON.
ActivityShadow(doc) ==
    LET name    == DecodeString(JsonMember(doc, "name"))
        type    == DecodeInt(JsonMember(doc, "type"))
        url     == DecodeString(JsonMember(doc, "url"))
        created == DecodeInt(JsonMember(doc, "created_at"))
        app     == DecodeString(JsonMember(doc, "application_id"))
        state   == DecodeString(JsonMember(doc, "state"))
        details == DecodeString(JsonMember(doc, "details"))
        emoji   == DecodeStruct(JsonMember(doc, "emoji"))
        party   == DecodeStruct(JsonMember(doc, "party"))
        assets  == DecodeStruct(JsonMember(doc, "assets"))
        secrets == DecodeStruct(JsonMember(doc, "secrets"))
        inst    == DecodeBool(JsonMember(doc, "instance"))
        flags   == DecodeInt(JsonMember(doc, "flags"))
    IN  {[err |-> StructError(doc, <<name.err, type.err, url.err, created.err,
                                     app.err, state.err, details.err, stamps.err,
                                     emoji.err, party.err, assets.err,
                                     secrets.err, inst.err, flags.err>>),
          Name |-> name.val, Type |-> type.val, URL |-> url.val,
          CreatedAt |-> created.val, ApplicationID |-> app.val,
          State |-> state.val, Details |-> details.val, Timestamps |-> stamps.t,
          Emoji |-> emoji.val, Party |-> party.val, Assets |-> assets.val,
          Secrets |-> secrets.val, Instance |-> inst.val, Flags |-> flags.val] :
            stamps \in DecodeTimeStamps(JsonMember(doc, "timestamps"))}

\* The nanoseconds in a millisecond, as created_at is scaled.
NanosPerMilli == Signed(FALSE, Dec(<<1,0,0,0,0,0,0>>))

\* time.Unix(0, nsec): the instant nsec nanoseconds after the Unix epoch.
\* A time.Time is modelled as its nanoseconds since the Unix epoch.
TimeUnix(nsec) == nsec

\* A decoder that assigns from the shadow struct before looking at the error.
ActivityUnmarshalJSONAssigningFirst(activity, doc) ==
    {[err |-> temp.err,
      a |-> [CreatedAt |-> TimeUnix(Mul64(temp.CreatedAt, NanosPerMilli)),
             ApplicationID |-> temp.ApplicationID, Assets |-> temp.Assets,
             Details |-> temp.Details, Emoji |-> temp.Emoji, Flags |-> temp.Flags,
             Instance |-> temp.Instance, Name |-> temp.Name, Party |-> temp.Party,
             Secrets |-> temp.Secrets, State |-> temp.State,
             Timestamps |-> temp.Timestamps, Type |-> temp.Type, URL |-> temp.URL]] :
        temp \in ActivityShadow(doc)}

\* A decoder with State and Details assigned crosswise.
ActivityUnmarshalJSONCrossAssigned(activity, doc) ==
    {IF temp.err # NoError THEN [err |-> temp.err, a |-> activity]
     ELSE [err |-> NoError,
           a |-> [CreatedAt |-> TimeUnix(Mul64(temp.CreatedAt, NanosPerMilli)),
                  ApplicationID |-> temp.ApplicationID,
                  Assets |-> temp.Assets,
                  Details |-> temp.State,
                  Emoji |-> temp.Emoji,
                  Flags |-> temp.Flags,
                  Instance |-> temp.Instance,
                  Name |-> temp.Name,
                  Party |-> temp.Party,
                  Secrets |-> temp.Secrets,
                  State |-> temp.Details,
                  Timestamps |-> temp.Timestamps,
                  Type |-> temp.Type,
                  URL |-> temp.URL]] :
        temp \in ActivityShadow(doc)}

\* func (activity *Activity) UnmarshalJSON(b []byte) error
ActivityUnmarshalJSON(activity, doc) ==
    {IF temp.err # NoError THEN [err |-> temp.err, a |-> activity]
     ELSE [err |-> NoError,
           a |-> [CreatedAt |-> TimeUnix(Mul64(temp.CreatedAt, NanosPerMilli)),
                  ApplicationID |-> temp.ApplicationID,
                  Assets |-> temp.Assets,
                  Details |-> temp.Details,
                  Emoji |-> temp.Emoji,
                  Flags |-> temp.Flags,
                  Instance |-> temp.Instance,
                  Name |-> temp.Name,
                  Party |-> temp.Party,
                  Secrets |-> temp.Secrets,
                  State |-> temp.State,
                  Timestamps |-> temp.Timestamps,
                  Type |-> temp.Type,
                  URL |-> temp.URL]] :
        temp \in ActivityShadow(doc)}

(***************************************************************************)
(* Permission constants                                                    *)
(***************************************************************************)

\* Text channel permissions.
PermissionReadMessages       == Hex(<<0,0,0,0,0,0,0,0,0,0,0,0,0,4,0,0>>)
\* PermissionSendMessages on the bit of PermissionViewChannel.
PermissionSendMessagesOnViewChannelBit == Hex(<<0,0,0,0,0,0,0,0,0,0,0,0,0,4,0,0>>)

PermissionSendMessages       == Hex(<<0,0,0,0,0,0,0,0,0,0,0,0,0,8,0,0>>)
PermissionSendTTSMessages    == Hex(<<0,0,0,0,0,0,0,0,0,0,0,0,1,0,0,0>>)
PermissionManageMessages     == Hex(<<0,0,0,0,0,0,0,0,0,0,0,0,2,0,0,0>>)
PermissionEmbedLinks         == Hex(<<0,0,0,0,0,0,0,0,0,0,0,0,4,0,0,0>>)
PermissionAttachFiles        == Hex(<<0,0,0,0,0,0,0,0,0,0,0,0,8,0,0,0>>)
PermissionReadMessageHistory == Hex(<<0,0,0,0,0,0,0,0,0,0,0,1,0,0,0,0>>)
PermissionMentionEveryone    == Hex(<<0,0,0,0,0,0,0,0,0,0,0,2,0,0,0,0>>)
PermissionUseExternalEmojis  == Hex(<<0,0,0,0,0,0,0,0,0,0,0,4,0,0,0,0>>)
PermissionUseSlashCommands   == Hex(<<0,0,0,0,0,0,0,0,8,0,0,0,0,0,0,0>>)

\* Voice permissions.
PermissionVoicePrioritySpeaker == Hex(<<0,0,0,0,0,0,0,0,0,0,0,0,0,1,0,0>>)
PermissionVoiceStreamVideo     == Hex(<<0,0,0,0,0,0,0,0,0,0,0,0,0,2,0,0>>)
PermissionVoiceConnect         == Hex(<<0,0,0,0,0,0,0,0,0,0,1,0,0,0,0,0>>)
PermissionVoiceSpeak           == Hex(<<0,0,0,0,0,0,0,0,0,0,2,0,0,0,0,0>>)
PermissionVoiceMuteMembers     == Hex(<<0,0,0,0,0,0,0,0,0,0,4,0,0,0,0,0>>)
PermissionVoiceDeafenMembers   == Hex(<<0,0,0,0,0,0,0,0,0,0,8,0,0,0,0,0>>)
PermissionVoiceMoveMembers     == Hex(<<0,0,0,0,0,0,0,0,0,1,0,0,0,0,0,0>>)
PermissionVoiceUseVAD          == Hex(<<0,0,0,0,0,0,0,0,0,2,0,0,0,0,0,0>>)
PermissionVoiceRequestToSpeak  == Hex(<<0,0,0,0,0,0,0,1,0,0,0,0,0,0,0,0>>)

\* General management.
PermissionChangeNickname  == Hex(<<0,0,0,0,0,0,0,0,0,4,0,0,0,0,0,0>>)
PermissionManageNicknames == Hex(<<0,0,0,0,0,0,0,0,0,8,0,0,0,0,0,0>>)
PermissionManageRoles     == Hex(<<0,0,0,0,0,0,0,0,1,0,0,0,0,0,0,0>>)
PermissionManageWebhooks  == Hex(<<0,0,0,0,0,0,0,0,2,0,0,0,0,0,0,0>>)
PermissionManageEmojis    == Hex(<<0,0,0,0,0,0,0,0,4,0,0,0,0,0,0,0>>)

\* General permissions.
PermissionCreateInstantInvite == Hex(<<0,0,0,0,0,0,0,0,0,0,0,0,0,0,0,1>>)
PermissionKickMembers         == Hex(<<0,0,0,0,0,0,0,0,0,0,0,0,0,0,0,2>>)
PermissionBanMembers          == Hex(<<0,0,0,0,0,0,0,0,0,0,0,0,0,0,0,4>>)
PermissionAdministrator       == Hex(<<0,0,0,0,0,0,0,0,0,0,0,0,0,0,0,8>>)
PermissionManageChannels      == Hex(<<0,0,0,0,0,0,0,0,0,0,0,0,0,0,1,0>>)
PermissionManageServer        == Hex(<<0,0,0,0,0,0,0,0,0,0,0,0,0,0,2,0>>)
PermissionAddReactions        == Hex(<<0,0,0,0,0,0,0,0,0,0,0,0,0,0,4,0>>)
PermissionViewAuditLogs       == Hex(<<0,0,0,0,0,0,0,0,0,0,0,0,0,0,8,0>>)
PermissionViewChannel         == Hex(<<0,0,0,0,0,0,0,0,0,0,0,0,0,4,0,0>>)
PermissionViewGuildInsights   == Hex(<<0,0,0,0,0,0,0,0,0,0,0,8,0,0,0,0>>)


\* PermissionAllText with a bit silently added.
PermissionAllTextWithExternalEmojis ==
    OrAll(<<PermissionViewChannel, PermissionSendMessages,
            PermissionSendTTSMessages, PermissionManageMessages,
            PermissionEmbedLinks, PermissionAttachFiles,
            PermissionReadMessageHistory, PermissionMentionEveryone,
            PermissionUseExternalEmojis>>)

PermissionAllText ==
    OrAll(<<PermissionViewChannel, PermissionSendMessages,
            PermissionSendTTSMessages, PermissionManageMessages,
            PermissionEmbedLinks, PermissionAttachFiles,
            PermissionReadMessageHistory, PermissionMentionEveryone>>)

\* PermissionAllVoice with a text bit added.
PermissionAllVoiceWithSendMessages ==
    OrAll(<<PermissionViewChannel, PermissionVoiceConnect, PermissionVoiceSpeak,
            PermissionVoiceMuteMembers, PermissionVoiceDeafenMembers,
            PermissionVoiceMoveMembers, PermissionVoiceUseVAD,
            PermissionVoicePrioritySpeaker, PermissionSendMessages>>)

PermissionAllVoice ==
    OrAll(<<PermissionViewChannel, PermissionVoiceConnect, PermissionVoiceSpeak,
            PermissionVoiceMuteMembers, PermissionVoiceDeafenMembers,
            PermissionVoiceMoveMembers, PermissionVoiceUseVAD,
            PermissionVoicePrioritySpeaker>>)

PermissionAllChannel ==
    OrAll(<<PermissionAllText, PermissionAllVoice,
            PermissionCreateInstantInvite, PermissionManageRoles,
            PermissionManageChannels, PermissionAddReactions,
            PermissionViewAuditLogs>>)

PermissionAll ==
    OrAll(<<PermissionAllChannel, PermissionKickMembers, PermissionBanMembers,
            PermissionManageServer, PermissionAdministrator,
            PermissionManageWebhooks, PermissionManageEmojis>>)

(***************************************************************************)
(* Intent constants                                                        *)
(***************************************************************************)

\* Go's 1 << n.
OneShl(n) == Shl(<<1>>, n)

IntentsGuilds                 == OneShl(0)
IntentsGuildMembers           == OneShl(1)
IntentsGuildBans              == OneShl(2)
IntentsGuildEmojis            == OneShl(3)
IntentsGuildIntegrations      == OneShl(4)
IntentsGuildWebhooks          == OneShl(5)
IntentsGuildInvites           == OneShl(6)
IntentsGuildVoiceStates       == OneShl(7)
IntentsGuildPresences         == OneShl(8)
IntentsGuildMessages          == OneShl(9)
IntentsGuildMessageReactions  == OneShl(10)
IntentsGuildMessageTyping     == OneShl(11)
IntentsDirectMessages         == OneShl(12)
IntentsDirectMessageReactions == OneShl(13)
IntentsDirectMessageTyping    == OneShl(14)
IntentsGuildScheduledEvents   == OneShl(16)

\* The non-privileged union with a privileged bit slipped in.
IntentsAllWithoutPrivilegedWithMembers ==
    OrAll(<<IntentsGuilds, IntentsGuildMembers, IntentsGuildBans,
            IntentsGuildEmojis, IntentsGuildIntegrations, IntentsGuildWebhooks,
            IntentsGuildInvites, IntentsGuildVoiceStates, IntentsGuildMessages,
            IntentsGuildMessageReactions, IntentsGuildMessageTyping,
            IntentsDirectMessages, IntentsDirectMessageReactions,
            IntentsDirectMessageTyping, IntentsGuildScheduledEvents>>)

IntentsAllWithoutPrivileged ==
    OrAll(<<IntentsGuilds, IntentsGuildBans, IntentsGuildEmojis,
            IntentsGuildIntegrations, IntentsGuildWebhooks, IntentsGuildInvites,
            IntentsGuildVoiceStates, IntentsGuildMessages,
            IntentsGuildMessageReactions, IntentsGuildMessageTyping,
            IntentsDirectMessages, IntentsDirectMessageReactions,
            IntentsDirectMessageTyping, IntentsGuildScheduledEvents>>)

\* IntentsAll with the presences bit left out.
IntentsAllWithoutPresences ==
    OrAll(<<IntentsAllWithoutPrivileged, IntentsGuildMembers>>)

IntentsAll ==
    OrAll(<<IntentsAllWithoutPrivileged, IntentsGuildMembers,
            IntentsGuildPresences>>)

IntentsNone == FromNat(0)

\* A MakeIntent that keeps the defined intent bits only.
MakeIntentDefinedBitsOnly(intents) == BitAnd(intents, IntentsAll)

\* func MakeIntent(intents Intent) Intent
MakeIntent(intents) == intents

(***************************************************************************)
(* Permission check                                                        *)
(***************************************************************************)

\* The partial-overlap test: some bit of `bit` is set in `mask`.
hasPermissionAnyBit(mask, bit) == BitAnd(mask, bit) # << >>

\* hasPermission(mask, bit): (mask & bit) == bit.
hasPermission(mask, bit) == BitAnd(mask, bit) = bit


(***************************************************************************)
(* State                                                                   *)
(***************************************************************************)

VARIABLES
    composing,        \* which set of flags the client is putting together
    nGranted,         \* how many flags have been OR-ed in so far
    rolePermissions,  \* Role.Permissions
    identifyIntents,  \* Identify.Intents
    query,            \* the arguments (mask, bit) of the permission check just made
    answer,           \* its result, << >> when the last step was no check
    intentMade,       \* the last MakeIntent call: its argument and what it gave
    channel,          \* a Channel (its ID)
    role,             \* a Role (its ID)
    member,           \* a Member (its User pointer: << >> is nil, <<u>> points to u)
    mention,          \* the outcome of the last Mention call
    decoder,          \* the type whose UnmarshalJSON is called
    wire,             \* the JSON document handed to it
    ts,               \* the TimeStamps receiver
    tmr,              \* the TooManyRequests receiver
    activity,         \* the Activity receiver
    prior,            \* the receiver of the call as it was before the call
    err,              \* the error returned ("pending" before the call)
    emoji,            \* an Emoji (ID, Name, Animated)
    guild,            \* a Guild (ID, Icon, Banner)
    formatted,        \* the last formatting call on them: what was called, on
                      \* what, and the string returned
    shared,           \* the values concurrent callers share
    call,             \* per caller: the helper or decoder it runs, with its document
    pc,               \* per caller: where it is in its call
    frame,            \* per caller: the local variables of its call
    shadow,           \* per slot: the shadow struct a decoder unmarshals into
    recv,             \* per caller: the receiver of its decoder
    result,           \* per caller: what its call returned
    roles,            \* a Roles slice
    rolesBefore,      \* the slice as it was first given
    sortCall,         \* the last Len, Less or Swap call on it, and what it gave
    event,            \* a GuildScheduledEvent (its Status)
    eventCall         \* the last decoding into it: the document, the error, the event before

flagVars == <<composing, nGranted, rolePermissions, identifyIntents, query, answer, intentMade>>

mentionVars == <<channel, role, member, mention>>

decodeVars == <<decoder, wire, ts, tmr, activity, prior, err>>

formatVars == <<emoji, guild, formatted>>

concVars == <<shared, call, pc, frame, shadow, recv, result>>

sortVars == <<roles, rolesBefore, sortCall>>

eventVars == <<event, eventCall>>

vars == <<flagVars, mentionVars, decodeVars, formatVars, concVars, sortVars, eventVars>>

(***************************************************************************)
(* Composing and checking bitmasks                                         *)
(***************************************************************************)

\* The flags a client grants one by one to put together each named union.
TextFlags ==
    <<PermissionViewChannel, PermissionSendMessages, PermissionSendTTSMessages,
      PermissionManageMessages, PermissionEmbedLinks, PermissionAttachFiles,
      PermissionReadMessageHistory, PermissionMentionEveryone>>

VoiceFlags ==
    <<PermissionViewChannel, PermissionVoiceConnect, PermissionVoiceSpeak,
      PermissionVoiceMuteMembers, PermissionVoiceDeafenMembers,
      PermissionVoiceMoveMembers, PermissionVoiceUseVAD,
      PermissionVoicePrioritySpeaker>>

ChannelFlags ==
    TextFlags \o VoiceFlags \o
    <<PermissionCreateInstantInvite, PermissionManageRoles,
      PermissionManageChannels, PermissionAddReactions, PermissionViewAuditLogs>>

AllFlags ==
    ChannelFlags \o
    <<PermissionKickMembers, PermissionBanMembers, PermissionManageServer,
      PermissionAdministrator, PermissionManageWebhooks, PermissionManageEmojis>>

UnprivilegedFlags ==
    <<IntentsGuilds, IntentsGuildBans, IntentsGuildEmojis,
      IntentsGuildIntegrations, IntentsGuildWebhooks, IntentsGuildInvites,
      IntentsGuildVoiceStates, IntentsGuildMessages,
      IntentsGuildMessageReactions, IntentsGuildMessageTyping,
      IntentsDirectMessages, IntentsDirectMessageReactions,
      IntentsDirectMessageTyping, IntentsGuildScheduledEvents>>

PrivilegedFlags == <<IntentsGuildMembers, IntentsGuildPresences>>

PermissionUnions == {"AllText", "AllVoice", "AllChannel", "All"}
IntentUnions == {"AllWithoutPrivileged", "AllIntents"}

FlagsOf(name) ==
    CASE name = "AllText" -> TextFlags
      [] name = "AllVoice" -> VoiceFlags
      [] name = "AllChannel" -> ChannelFlags
      [] name = "All" -> AllFlags
      [] name = "AllWithoutPrivileged" -> UnprivilegedFlags
      [] name = "AllIntents" -> UnprivilegedFlags \o PrivilegedFlags

\* Every named permission constant, as an argument of a permission check.
NamedPermissions ==
    { PermissionReadMessages, PermissionSendMessages, PermissionSendTTSMessages,
      PermissionManageMessages, PermissionEmbedLinks, PermissionAttachFiles,
      PermissionReadMessageHistory, PermissionMentionEveryone,
      PermissionUseExternalEmojis, PermissionUseSlashCommands,
      PermissionVoicePrioritySpeaker, PermissionVoiceStreamVideo,
      PermissionVoiceConnect, PermissionVoiceSpeak, PermissionVoiceMuteMembers,
      PermissionVoiceDeafenMembers, PermissionVoiceMoveMembers,
      PermissionVoiceUseVAD, PermissionVoiceRequestToSpeak,
      PermissionChangeNickname, PermissionManageNicknames, PermissionManageRoles,
      PermissionManageWebhooks, PermissionManageEmojis,
      PermissionCreateInstantInvite, PermissionKickMembers, PermissionBanMembers,
      PermissionAdministrator, PermissionManageChannels, PermissionManageServer,
      PermissionAddReactions, PermissionViewAuditLogs, PermissionViewChannel,
      PermissionViewGuildInsights,
      PermissionAllText, PermissionAllVoice, PermissionAllChannel, PermissionAll }

\* No Mention call has been made.
NoMention == [of |-> "none", panicked |-> FALSE, value |-> << >>]

ZeroTooManyRequests == [Bucket |-> "", Message |-> "", RetryAfter |-> IntZero]

\* The zero time.Time, January 1 of year 1: 62135596800 s before the Unix epoch.
ZeroTime == Signed(TRUE, Mul(Dec(<<6,2,1,3,5,5,9,6,8,0,0>>), Second.mag))

ZeroActivity ==
    [CreatedAt |-> ZeroTime, ApplicationID |-> "", Assets |-> ZeroStruct,
     Details |-> "", Emoji |-> ZeroStruct, Flags |-> IntZero, Instance |-> FALSE,
     Name |-> "", Party |-> ZeroStruct, Secrets |-> ZeroStruct, State |-> "",
     Timestamps |-> ZeroTimeStamps, Type |-> IntZero, URL |-> ""]

NoDocument == [top |-> "none"]

DecodeIdle ==
    /\ decoder = "none"
    /\ wire = NoDocument
    /\ ts = ZeroTimeStamps
    /\ tmr = ZeroTooManyRequests
    /\ activity = ZeroActivity
    /\ prior = "none"
    /\ err = "pending"

MentionIdle ==
    /\ channel = [ID |-> << >>]
    /\ role = [ID |-> << >>]
    /\ member = [User |-> << >>]
    /\ mention = NoMention

\* No formatting call has been made.
NoFormat == [of |-> "none", on |-> << >>, value |-> << >>]

FormatIdle ==
    /\ emoji = [ID |-> << >>, Name |-> << >>, Animated |-> FALSE]
    /\ guild = [ID |-> << >>, Icon |-> << >>, Banner |-> << >>]
    /\ formatted = NoFormat

ConcIdle ==
    /\ shared = << >>
    /\ call = << >>
    /\ pc = << >>
    /\ frame = << >>
    /\ shadow = << >>
    /\ recv = << >>
    /\ result = << >>

\* No call has been made on a Roles slice.
NoSortCall == [of |-> "none", i |-> 0, j |-> 0, value |-> << >>, before |-> << >>]

SortIdle ==
    /\ roles = << >>
    /\ rolesBefore = << >>
    /\ sortCall = NoSortCall

\* The zero GuildScheduledEvent.
ZeroEvent == [ID |-> "", Name |-> "", Status |-> 0, UserCount |-> 0]

\* Nothing has been decoded into the event.
NoEventCall == [made |-> FALSE, doc |-> NoDocument, err |-> "pending", before |-> ZeroEvent]

EventIdle ==
    /\ event = ZeroEvent
    /\ eventCall = NoEventCall

\* No MakeIntent call has been made.
NoIntentMade == [made |-> FALSE, arg |-> << >>, once |-> << >>, twice |-> << >>]

FlagsIdle ==
    /\ intentMade = NoIntentMade
    /\ composing = "none"
    /\ nGranted = 0
    /\ rolePermissions = << >>
    /\ identifyIntents = << >>
    /\ query = [mask |-> << >>, bit |-> << >>]
    /\ answer = << >>

InitFlags ==
    /\ MentionIdle
    /\ DecodeIdle
    /\ FormatIdle
    /\ ConcIdle
    /\ SortIdle
    /\ EventIdle
    /\ intentMade = NoIntentMade
    /\ composing \in PermissionUnions \cup IntentUnions
    /\ nGranted = 0
    /\ rolePermissions = << >>
    /\ identifyIntents = << >>
    /\ query = [mask |-> << >>, bit |-> << >>]
    /\ answer = << >>

\* role.Permissions |= flag, for the next flag of the union being composed.
GrantPermission ==
    /\ composing \in PermissionUnions
    /\ nGranted < Len(FlagsOf(composing))
    /\ rolePermissions' = BitOr(rolePermissions, FlagsOf(composing)[nGranted + 1])
    /\ nGranted' = nGranted + 1
    /\ query' = [mask |-> << >>, bit |-> << >>]
    /\ answer' = << >>
    /\ UNCHANGED <<composing, identifyIntents, intentMade>>
    /\ UNCHANGED <<mentionVars, decodeVars, formatVars, concVars, sortVars, eventVars>>

\* identify.Intents |= flag, for the next flag of the union being composed.
AddIntent ==
    /\ composing \in IntentUnions
    /\ nGranted < Len(FlagsOf(composing))
    /\ identifyIntents' = BitOr(identifyIntents, FlagsOf(composing)[nGranted + 1])
    /\ nGranted' = nGranted + 1
    /\ intentMade' = NoIntentMade
    /\ UNCHANGED <<composing, rolePermissions, query, answer>>
    /\ UNCHANGED <<mentionVars, decodeVars, formatVars, concVars, sortVars, eventVars>>

\* hasPermission(role.Permissions, bit)
CheckPermission(bit) ==
    /\ composing \in PermissionUnions
    /\ query' = [mask |-> rolePermissions, bit |-> bit]
    /\ answer' = <<hasPermission(rolePermissions, bit)>>
    /\ UNCHANGED <<composing, nGranted, rolePermissions, identifyIntents, intentMade>>
    /\ UNCHANGED <<mentionVars, decodeVars, formatVars, concVars, sortVars, eventVars>>

\* Arguments beside the mask being composed: no intent, an undefined bit
\* alone, and the mask with undefined bits set.
UndefinedIntentBits == {OneShl(20), BitOr(OneShl(15), OneShl(62))}

IntentArgs ==
    {identifyIntents, IntentsNone}
    \cup UndefinedIntentBits
    \cup {BitOr(identifyIntents, u) : u \in UndefinedIntentBits}

\* made := MakeIntent(i), and MakeIntent of that again
CallMakeIntent ==
    /\ composing \in IntentUnions
    /\ \E i \in IntentArgs :
          intentMade' = [made |-> TRUE, arg |-> i, once |-> MakeIntent(i),
                         twice |-> MakeIntent(MakeIntent(i))]
    /\ UNCHANGED <<composing, nGranted, rolePermissions, identifyIntents, query, answer>>
    /\ UNCHANGED <<mentionVars, decodeVars, formatVars, concVars, sortVars, eventVars>>

NextFlags ==
    \/ GrantPermission
    \/ AddIntent
    \/ \E bit \in NamedPermissions : CheckPermission(bit)
    \/ CallMakeIntent

(***************************************************************************)
(* Mentions                                                                *)
(***************************************************************************)

\* Strings are sequences of characters.
MaxIdLen == 2

IdChars == {"7", "%", "s", ">"}

RECURSIVE StringsUpTo(_)
StringsUpTo(n) ==
    IF n = 0 THEN {<< >>}
    ELSE LET shorter == StringsUpTo(n - 1)
         IN  shorter \cup {<<c>> \o t : c \in IdChars, t \in {u \in shorter : Len(u) = n - 1}}

Ids == StringsUpTo(MaxIdLen)

\* fmt.Sprintf(format, arg) for a format whose only verb is one %s and a
\* string argument: the argument is written as it is, never re-scanned.
RECURSIVE Sprintf(_, _)
Sprintf(format, arg) ==
    IF format = << >> THEN << >>
    ELSE IF Len(format) >= 2 /\ format[1] = "%" /\ format[2] = "s"
         THEN arg \o Sprintf(SubSeq(format, 3, Len(format)), arg)
    ELSE <<format[1]>> \o Sprintf(Tail(format), arg)

Returned(who, str) == [of |-> who, panicked |-> FALSE, value |-> str]

\* A run-time panic (here: nil pointer dereference) instead of a result.
Panicked(who) == [of |-> who, panicked |-> TRUE, value |-> << >>]

\* func (c *Channel) Mention() string
ChannelMention(c) == Returned("Channel", Sprintf(<<"<", "#", "%", "s", ">">>, c.ID))

\* func (r *Role) Mention() string
RoleMention(r) == Returned("Role", Sprintf(<<"<", "@", "&", "%", "s", ">">>, r.ID))

\* A member mention without the nickname mark.
MemberMentionNoBang(m) ==
    IF m.User = << >> THEN Panicked("Member")
    ELSE Returned("Member", <<"<", "@">> \o m.User[1].ID \o <<">">>)

\* func (m *Member) Mention() string: m.User is dereferenced unchecked.
MemberMention(m) ==
    IF m.User = << >> THEN Panicked("Member")
    ELSE Returned("Member", <<"<", "@", "!">> \o m.User[1].ID \o <<">">>)

\* Values as they are constructed or decoded: any ID, and a Member with or
\* without its "user" object.
InitMention ==
    /\ FlagsIdle
    /\ DecodeIdle
    /\ FormatIdle
    /\ ConcIdle
    /\ SortIdle
    /\ EventIdle
    /\ \E id \in Ids :
          /\ channel = [ID |-> id]
          /\ role = [ID |-> id]
          /\ member \in {[User |-> << >>], [User |-> <<[ID |-> id]>>]}
    /\ mention = NoMention

CallChannelMention ==
    /\ mention' = ChannelMention(channel)
    /\ UNCHANGED <<channel, role, member>>
    /\ UNCHANGED <<flagVars, decodeVars, formatVars, concVars, sortVars, eventVars>>

CallRoleMention ==
    /\ mention' = RoleMention(role)
    /\ UNCHANGED <<channel, role, member>>
    /\ UNCHANGED <<flagVars, decodeVars, formatVars, concVars, sortVars, eventVars>>

CallMemberMention ==
    /\ mention' = MemberMention(member)
    /\ UNCHANGED <<channel, role, member>>
    /\ UNCHANGED <<flagVars, decodeVars, formatVars, concVars, sortVars, eventVars>>

NextMention ==
    \/ CallChannelMention
    \/ CallRoleMention
    \/ CallMemberMention

(***************************************************************************)
(* Emoji and Guild formatting                                              *)
(***************************************************************************)

\* An API name with the ID before the name.
EmojiAPINameIDFirst(e) ==
    IF e.ID # << >> /\ e.Name # << >> THEN e.ID \o <<":">> \o e.Name
    ELSE IF e.Name # << >> THEN e.Name
    ELSE e.ID

\* func (e *Emoji) APIName() string
EmojiAPIName(e) ==
    IF e.ID # << >> /\ e.Name # << >> THEN e.Name \o <<":">> \o e.ID
    ELSE IF e.Name # << >> THEN e.Name
    ELSE e.ID

\* A message format that never marks an emoji as animated.
EmojiMessageFormatNeverAnimated(e) ==
    IF e.ID # << >> /\ e.Name # << >> THEN <<"<", ":">> \o EmojiAPIName(e) \o <<">">>
    ELSE EmojiAPIName(e)

\* func (e *Emoji) MessageFormat() string
EmojiMessageFormat(e) ==
    IF e.ID # << >> /\ e.Name # << >>
    THEN IF e.Animated THEN <<"<", "a", ":">> \o EmojiAPIName(e) \o <<">">>
         ELSE <<"<", ":">> \o EmojiAPIName(e) \o <<">">>
    ELSE EmojiAPIName(e)

\* strings.HasPrefix(str, prefix)
HasPrefix(str, prefix) ==
    Len(str) >= Len(prefix) /\ SubSeq(str, 1, Len(prefix)) = prefix

\* The endpoint functions are defined outside this file: what they return is
\* kept as the endpoint's name with its arguments.
EndpointGuildIcon(gID, hash) == <<"EndpointGuildIcon", gID, hash>>
EndpointGuildIconAnimated(gID, hash) == <<"EndpointGuildIconAnimated", gID, hash>>
EndpointGuildBanner(gID, hash) == <<"EndpointGuildBanner", gID, hash>>

\* An icon URL that never takes the animated endpoint.
GuildIconURLNeverAnimated(g) ==
    IF g.Icon = << >> THEN << >> ELSE EndpointGuildIcon(g.ID, g.Icon)

\* func (g *Guild) IconURL() string
GuildIconURL(g) ==
    IF g.Icon = << >> THEN << >>
    ELSE IF HasPrefix(g.Icon, <<"a", "_">>) THEN EndpointGuildIconAnimated(g.ID, g.Icon)
    ELSE EndpointGuildIcon(g.ID, g.Icon)

\* A banner URL built from the icon hash.
GuildBannerURLFromIcon(g) ==
    IF g.Banner = << >> THEN << >> ELSE EndpointGuildBanner(g.ID, g.Icon)

\* func (g *Guild) BannerURL() string
GuildBannerURL(g) ==
    IF g.Banner = << >> THEN << >> ELSE EndpointGuildBanner(g.ID, g.Banner)

\* Emoji: any ID; no name, a name, or a name with a colon in it.
EmojiNames == {<< >>, <<"o", "k">>, <<":">>}

Emojis == [ID : Ids, Name : EmojiNames, Animated : BOOLEAN]

\* Guilds: icon hashes with, without and nearly with the animated prefix.
IconHashes ==
    {<< >>, <<"a", "_">>, <<"a", "_", "f">>, <<"a">>, <<"a", "f">>, <<"_", "a">>,
     <<"f">>, <<"f", "a", "_">>, <<"A", "_", "f">>}

Guilds == [ID : {<< >>, <<"7">>}, Icon : IconHashes, Banner : {<< >>, <<"b">>, <<"a", "_">>}]

InitFormat ==
    /\ FlagsIdle
    /\ MentionIdle
    /\ DecodeIdle
    /\ ConcIdle
    /\ SortIdle
    /\ EventIdle
    /\ \/ /\ emoji \in Emojis
          /\ guild = [ID |-> << >>, Icon |-> << >>, Banner |-> << >>]
       \/ /\ emoji = [ID |-> << >>, Name |-> << >>, Animated |-> FALSE]
          /\ guild \in Guilds
    /\ formatted = NoFormat

CallAPIName ==
    /\ formatted' = [of |-> "APIName", on |-> emoji, value |-> EmojiAPIName(emoji)]
    /\ UNCHANGED <<emoji, guild>>
    /\ UNCHANGED <<flagVars, mentionVars, decodeVars, concVars, sortVars, eventVars>>

CallMessageFormat ==
    /\ formatted' = [of |-> "MessageFormat", on |-> emoji,
                     value |-> EmojiMessageFormat(emoji)]
    /\ UNCHANGED <<emoji, guild>>
    /\ UNCHANGED <<flagVars, mentionVars, decodeVars, concVars, sortVars, eventVars>>

CallIconURL ==
    /\ formatted' = [of |-> "IconURL", on |-> guild, value |-> GuildIconURL(guild)]
    /\ UNCHANGED <<emoji, guild>>
    /\ UNCHANGED <<flagVars, mentionVars, decodeVars, concVars, sortVars, eventVars>>

CallBannerURL ==
    /\ formatted' = [of |-> "BannerURL", on |-> guild, value |-> GuildBannerURL(guild)]
    /\ UNCHANGED <<emoji, guild>>
    /\ UNCHANGED <<flagVars, mentionVars, decodeVars, concVars, sortVars, eventVars>>

NextFormat ==
    \/ CallAPIName
    \/ CallMessageFormat
    \/ CallIconURL
    \/ CallBannerURL

(***************************************************************************)
(* Decoding                                                                *)
(***************************************************************************)

\* The digits the fractions of the number literals are written with, and
\* how many of them at most.
FracDigits == {0, 1, 5, 9}

MaxFracDigits == 3

RECURSIVE DigitStringsUpTo(_)
DigitStringsUpTo(n) ==
    IF n = 0 THEN {<< >>}
    ELSE LET shorter == DigitStringsUpTo(n - 1)
         IN  shorter \cup {<<d>> \o t : d \in FracDigits, t \in {u \in shorter : Len(u) = n - 1}}

\* Fractions beside the enumerated ones: .7 and .9999
FracStrings == DigitStringsUpTo(MaxFracDigits) \cup {<<7>>, <<9,9,9,9>>}

\* retry_after: seconds.  The largest whole part is the last whose
\* nanoseconds fit in int64.
RetryWholes == {FromNat(0), FromNat(1), FromNat(2), Dec(<<9,2,2,3,3,7,2,0,3,6>>)}

RetryNumbers ==
    {JNumber(FALSE, w, f) : w \in RetryWholes, f \in FracStrings}
    \cup {JNumber(TRUE, FromNat(1), f) : f \in {<< >>, <<5>>, <<9>>}}
    \cup {JNumber(FALSE, Dec(<<1,0,0,0,0,0,0,0,0,0,0,0,0,0,0,0,0,0,0,0>>), << >>)}

\* start and end: milliseconds since the epoch.
StampWholes ==
    {FromNat(0), Dec(<<1,6,0,9,4,5,9,2,0,0,0,0,0>>), Dec(<<1,6,0,9,4,5,9,2,0,0,5,0,0>>),
     Dec(<<9,0,0,7,1,9,9,2,5,4,7,4,0,9,9,3>>)}

StampNumbers ==
    {JNumber(FALSE, w, f) : w \in StampWholes, f \in FracStrings}
    \cup {JNumber(TRUE, Dec(<<1,6,0,9,4,5,9,2,0,0,5,0,0>>), f) : f \in {<< >>, <<7>>}}
    \cup {JNumber(FALSE, Dec(<<1,0,0,0,0,0,0,0,0,0,0,0,0,0,0,0,0,0,0,0>>), << >>)}

\* Values that are no number.
Empties == {JAbsent, JNull}
WrongForNumber == {JString("soon"), JBool(TRUE), JArray, JObject("thing")}
WrongForString == {JNumber(FALSE, FromNat(1), << >>), JBool(TRUE), JArray}

\* Documents that are no JSON object: not JSON at all, null, or another value.
TopLevels == {"invalid", "null", "array", "string"}

TimeStampsDocs ==
    {[top |-> "object", start |-> x, end |-> JAbsent] :
        x \in StampNumbers \cup Empties \cup WrongForNumber}
    \cup {[top |-> "object", start |-> JNumber(FALSE, FromNat(5), << >>), end |-> y] :
        y \in {JNumber(FALSE, w, f) : w \in StampWholes, f \in {<< >>, <<7>>}}
              \cup Empties \cup WrongForNumber}
    \cup {[top |-> k, start |-> JAbsent, end |-> JAbsent] : k \in TopLevels}

TooManyRequestsDocs ==
    {[top |-> "object", bucket |-> JString("bucket"), message |-> JString("slow down"),
      retry_after |-> x] : x \in RetryNumbers \cup Empties \cup WrongForNumber}
    \cup {[top |-> "object", bucket |-> x, message |-> y,
           retry_after |-> JNumber(FALSE, FromNat(1), <<5>>)] :
             x \in Empties \cup WrongForString, y \in {JString("slow down"), JAbsent, JArray}}
    \cup {[top |-> k, bucket |-> JAbsent, message |-> JAbsent, retry_after |-> JAbsent] :
             k \in TopLevels}

\* An activity as the gateway sends it.
BaseActivityMembers ==
    [key \in {ActivityFields[i] : i \in 1..Len(ActivityFields)} |->
        CASE key = "name" -> JString("chess")
          [] key = "type" -> JNumber(FALSE, FromNat(0), << >>)
          [] key = "url" -> JAbsent
          [] key = "created_at" -> JNumber(FALSE, Dec(<<1,6,0,9,4,5,9,2,0,0,0,0,0>>), << >>)
          [] key = "application_id" -> JString("app")
          [] key = "state" -> JString("in game")
          [] key = "details" -> JString("ranked")
          [] key = "timestamps" ->
                JObject([top |-> "object",
                         start |-> JNumber(FALSE, Dec(<<1,6,0,9,4,5,9,2,0,0,5,0,0>>), <<7>>),
                         end |-> JAbsent])
          [] key = "emoji" -> JObject("emoji")
          [] key = "party" -> JObject("party")
          [] key = "assets" -> JObject("assets")
          [] key = "secrets" -> JObject("secrets")
          [] key = "instance" -> JBool(TRUE)
          [] key = "flags" -> JNumber(FALSE, FromNat(1), << >>)]

\* What a member may be instead: another value of its type, nothing, or a
\* value of the wrong type.
ActivityAlternatives(key) ==
    Empties \cup
    CASE key \in {"name", "url", "application_id", "state", "details"} ->
            {JString("other")} \cup WrongForString
      [] key = "type" ->
            {JNumber(FALSE, FromNat(n), << >>) : n \in {1, 5, 6, 99}}
            \cup {JNumber(TRUE, FromNat(1), << >>)} \cup WrongForNumber
      [] key = "created_at" ->
            {JNumber(FALSE, FromNat(1), << >>), JNumber(FALSE, FromNat(1), <<5>>),
             JNumber(TRUE, FromNat(1), << >>),
             JNumber(FALSE, Dec(<<9,2,2,3,3,7,2,0,3,6,8,5,5>>), << >>),
             JNumber(FALSE, Dec(<<1,0,0,0,0,0,0,0,0,0,0,0,0,0,0,0,0,0,0,0>>), << >>)}
            \cup WrongForNumber
      [] key = "flags" ->
            {JNumber(FALSE, FromNat(2), << >>), JNumber(FALSE, FromNat(1), <<5>>)}
            \cup WrongForNumber
      [] key = "timestamps" ->
            {JObject([top |-> "object", start |-> x, end |-> JAbsent]) :
                x \in {JNumber(FALSE, FromNat(5), << >>), JNull, JString("soon")}}
            \cup {JString("soon"), JArray}
      [] key = "instance" -> {JBool(FALSE), JString("yes"), JArray}
      [] OTHER -> {JObject("other"), JString("x"), JArray}

ActivityDocs ==
    {[top |-> "object", members |-> BaseActivityMembers]}
    \cup UNION {{[top |-> "object", members |-> [BaseActivityMembers EXCEPT ![key] = x]] :
                    x \in ActivityAlternatives(key)} : key \in DOMAIN BaseActivityMembers}
    \cup {[top |-> k, members |-> BaseActivityMembers] : k \in TopLevels}

\* Receivers that have been decoded into before.
UsedTimeStamps == [EndTimestamp |-> Signed(FALSE, FromNat(7)),
                   StartTimestamp |-> Signed(FALSE, FromNat(3))]

UsedTooManyRequests == [Bucket |-> "old bucket", Message |-> "old message",
                        RetryAfter |-> Second]

UsedActivity ==
    [CreatedAt |-> Second, ApplicationID |-> "old", Assets |-> "old",
     Details |-> "old", Emoji |-> "old", Flags |-> Signed(FALSE, FromNat(4)),
     Instance |-> TRUE, Name |-> "old", Party |-> "old", Secrets |-> "old",
     State |-> "old", Timestamps |-> UsedTimeStamps,
     Type |-> Signed(FALSE, FromNat(3)), URL |-> "old"]

InitDecode ==
    /\ FlagsIdle
    /\ MentionIdle
    /\ FormatIdle
    /\ ConcIdle
    /\ SortIdle
    /\ EventIdle
    /\ err = "pending"
    /\ decoder \in {"TimeStamps", "TooManyRequests", "Activity"}
    /\ wire \in CASE decoder = "TimeStamps" -> TimeStampsDocs
                [] decoder = "TooManyRequests" -> TooManyRequestsDocs
                [] decoder = "Activity" -> ActivityDocs
    /\ ts \in IF decoder = "TimeStamps" THEN {ZeroTimeStamps, UsedTimeStamps}
               ELSE {ZeroTimeStamps}
    /\ tmr \in IF decoder = "TooManyRequests"
                THEN {ZeroTooManyRequests, UsedTooManyRequests}
                ELSE {ZeroTooManyRequests}
    /\ activity \in IF decoder = "Activity" THEN {ZeroActivity, UsedActivity}
                     ELSE {ZeroActivity}
    /\ prior = CASE decoder = "TimeStamps" -> ts
                  [] decoder = "TooManyRequests" -> tmr
                  [] decoder = "Activity" -> activity

\* err := t.UnmarshalJSON(b) on the TimeStamps receiver
DecodeTimeStampsCall ==
    /\ decoder = "TimeStamps"
    /\ err = "pending"
    /\ \E out \in TimeStampsUnmarshalJSON(ts, wire) :
          /\ err' = out.err
          /\ ts' = out.t
    /\ UNCHANGED <<decoder, wire, tmr, activity, prior>>
    /\ UNCHANGED <<flagVars, mentionVars, formatVars, concVars, sortVars, eventVars>>

\* err := t.UnmarshalJSON(b) on the TooManyRequests receiver
DecodeTooManyRequestsCall ==
    /\ decoder = "TooManyRequests"
    /\ err = "pending"
    /\ \E out \in TooManyRequestsUnmarshalJSON(tmr, wire) :
          /\ err' = out.err
          /\ tmr' = out.t
    /\ UNCHANGED <<decoder, wire, ts, activity, prior>>
    /\ UNCHANGED <<flagVars, mentionVars, formatVars, concVars, sortVars, eventVars>>

\* err := activity.UnmarshalJSON(b) on the Activity receiver
DecodeActivityCall ==
    /\ decoder = "Activity"
    /\ err = "pending"
    /\ \E out \in ActivityUnmarshalJSON(activity, wire) :
          /\ err' = out.err
          /\ activity' = out.a
    /\ UNCHANGED <<decoder, wire, ts, tmr, prior>>
    /\ UNCHANGED <<flagVars, mentionVars, formatVars, concVars, sortVars, eventVars>>

NextDecode ==
    \/ DecodeTimeStampsCall
    \/ DecodeTooManyRequestsCall
    \/ DecodeActivityCall

(***************************************************************************)
(* Roles                                                                   *)
(***************************************************************************)

\* The longest Roles slice considered.
MaxRoles == 3

\* func (r Roles) Len() int
RolesLen(r) == Len(r)

\* Less ordering by ascending Position.
RolesLessAscending(r, i, j) == r[i + 1].Position < r[j + 1].Position

\* func (r Roles) Less(i, j int) bool, with Go's indices from 0
RolesLess(r, i, j) == r[i + 1].Position > r[j + 1].Position

\* func (r Roles) Swap(i, j int)
RolesSwap(r, i, j) == [r EXCEPT ![i + 1] = r[j + 1], ![j + 1] = r[i + 1]]

\* The roles the slices point to: three distinct positions and one tie.
RoleValues ==
    {[ID |-> <<"a">>, Position |-> 0], [ID |-> <<"b">>, Position |-> 1],
     [ID |-> <<"c">>, Position |-> 1], [ID |-> <<"d">>, Position |-> 2]}

\* The indices of a slice.
Indices(r) == 0..(RolesLen(r) - 1)

InitRoles ==
    /\ FlagsIdle
    /\ MentionIdle
    /\ DecodeIdle
    /\ FormatIdle
    /\ ConcIdle
    /\ EventIdle
    /\ roles \in UNION {[1..n -> RoleValues] : n \in 0..MaxRoles}
    /\ rolesBefore = roles
    /\ sortCall = NoSortCall

\* n := r.Len()
CallLen ==
    /\ sortCall' = [of |-> "Len", i |-> 0, j |-> 0, value |-> <<RolesLen(roles)>>,
                    before |-> roles]
    /\ UNCHANGED <<roles, rolesBefore>>
    /\ UNCHANGED <<flagVars, mentionVars, decodeVars, formatVars, concVars, eventVars>>

\* b := r.Less(i, j)
CallLess ==
    /\ \E i, j \in Indices(roles) :
          sortCall' = [of |-> "Less", i |-> i, j |-> j,
                       value |-> <<RolesLess(roles, i, j)>>, before |-> roles]
    /\ UNCHANGED <<roles, rolesBefore>>
    /\ UNCHANGED <<flagVars, mentionVars, decodeVars, formatVars, concVars, eventVars>>

\* r.Swap(i, j)
CallSwap ==
    /\ \E i, j \in Indices(roles) :
          /\ roles' = RolesSwap(roles, i, j)
          /\ sortCall' = [of |-> "Swap", i |-> i, j |-> j, value |-> << >>,
                          before |-> roles]
    /\ UNCHANGED rolesBefore
    /\ UNCHANGED <<flagVars, mentionVars, decodeVars, formatVars, concVars, eventVars>>

NextRoles ==
    \/ CallLen
    \/ CallLess
    \/ CallSwap

(***************************************************************************)
(* Guild scheduled events                                                  *)
(***************************************************************************)

\* The GuildScheduledEventStatus constants.
GuildScheduledEventStatusScheduled == 1
GuildScheduledEventStatusActive == 2
GuildScheduledEventStatusCompleted == 3
GuildScheduledEventStatusCanceled == 4

\* Valid Guild Scheduled Event Status Transitions:
\* SCHEDULED --> ACTIVE --> COMPLETED, SCHEDULED --> CANCELED
ValidStatusTransitions ==
    {<<GuildScheduledEventStatusScheduled, GuildScheduledEventStatusActive>>,
     <<GuildScheduledEventStatusActive, GuildScheduledEventStatusCompleted>>,
     <<GuildScheduledEventStatusScheduled, GuildScheduledEventStatusCanceled>>}

\* The largest status number a document carries.
MaxStatus == 5

\* The Go int a decoded integer stands for.
IntOf(x) ==
    LET f[i \in 0..Len(x.mag)] ==
            IF i = 0 THEN 0 ELSE f[i - 1] + x.mag[i] * (2 ^ (i - 1))
    IN  IF x.neg THEN 0 - f[Len(x.mag)] ELSE f[Len(x.mag)]

\* json.Unmarshal of one member into an int field that may hold a value
\* already: an absent or null member, and a member of the wrong type, leave
\* the field as it is.
StoreInt(old, jv) ==
    IF jv.t = "number" /\ DecodeInt(jv).err = NoError THEN IntOf(DecodeInt(jv).val) ELSE old

\* The same for a string field.
StoreString(old, jv) ==
    IF jv.t = "string" THEN DecodeString(jv).val ELSE old

\* A decoder that refuses a status the documented transitions do not allow.
UnmarshalGuildScheduledEventEnforcing(ev, doc) ==
    LET errs == <<DecodeString(doc.id).err, DecodeString(doc.name).err,
                  DecodeInt(doc.status).err, DecodeInt(doc.user_count).err>>
        status == StoreInt(ev.Status, doc.status)
    IN  [err |-> StructError(doc, errs),
         ev  |-> IF HasMembers(doc)
                 THEN [ID |-> StoreString(ev.ID, doc.id),
                       Name |-> StoreString(ev.Name, doc.name),
                       Status |-> IF <<ev.Status, status>> \in ValidStatusTransitions
                                  THEN status ELSE ev.Status,
                       UserCount |-> StoreInt(ev.UserCount, doc.user_count)]
                 ELSE ev]

\* json.Unmarshal(b, &ev) for a GuildScheduledEvent, which has no UnmarshalJSON
\* of its own: each member present is stored into the field its tag names.
UnmarshalGuildScheduledEvent(ev, doc) ==
    LET errs == <<DecodeString(doc.id).err, DecodeString(doc.name).err,
                  DecodeInt(doc.status).err, DecodeInt(doc.user_count).err>>
    IN  [err |-> StructError(doc, errs),
         ev  |-> IF HasMembers(doc)
                 THEN [ID |-> StoreString(ev.ID, doc.id),
                       Name |-> StoreString(ev.Name, doc.name),
                       Status |-> StoreInt(ev.Status, doc.status),
                       UserCount |-> StoreInt(ev.UserCount, doc.user_count)]
                 ELSE ev]

\* The documents decoded into an event.
StatusValues ==
    {JNumber(FALSE, FromNat(n), << >>) : n \in 0..MaxStatus}
    \cup {JAbsent, JNull, JString("soon")}

EventDocs ==
    [top : {"object"}, id : {JAbsent, JString("7")}, name : {JAbsent, JString("gala")},
     status : StatusValues, user_count : {JAbsent, JNumber(FALSE, FromNat(2), << >>)}]
    \cup [top : {"invalid", "null"}, id : {JAbsent}, name : {JAbsent},
          status : {JAbsent}, user_count : {JAbsent}]

InitEvents ==
    /\ FlagsIdle
    /\ MentionIdle
    /\ DecodeIdle
    /\ FormatIdle
    /\ ConcIdle
    /\ SortIdle
    /\ event = ZeroEvent
    /\ eventCall = NoEventCall

\* err := json.Unmarshal(b, &event), into the event as it stands
DecodeEvent ==
    /\ \E doc \in EventDocs :
          LET o == UnmarshalGuildScheduledEvent(event, doc)
          IN  /\ event' = o.ev
              /\ eventCall' = [made |-> TRUE, doc |-> doc, err |-> o.err, before |-> event]
    /\ UNCHANGED <<flagVars, mentionVars, decodeVars, formatVars, concVars, sortVars>>

NextEvents == DecodeEvent

(***************************************************************************)
(* Concurrent callers                                                      *)
(***************************************************************************)

\* Two goroutines, each making one call.
Callers == {1, 2}

Helpers ==
    {"ChannelMention", "RoleMention", "MemberMention", "APIName", "MessageFormat",
     "MakeIntent"}

Decoders == {"TimeStamps", "TooManyRequests", "Activity"}

\* The values the callers share: every helper is called on these.
SharedValues ==
    [channel  |-> [ID |-> <<"7">>],
     role     |-> [ID |-> <<"7", "s">>],
     member   |-> [User |-> <<[ID |-> <<"%">>]>>],
     emoji    |-> [ID |-> <<"7">>, Name |-> <<"o", "k">>, Animated |-> TRUE],
     identify |-> [Intents |-> IntentsAllWithoutPrivileged]]

\* The fields of the shared values a helper reads, in the order it reads
\* them (MessageFormat reads ID and Name again inside APIName).
Loads(op) ==
    CASE op = "ChannelMention" -> << <<"channel", "ID">> >>
      [] op = "RoleMention" -> << <<"role", "ID">> >>
      [] op = "MemberMention" -> << <<"member", "User">> >>
      [] op = "APIName" -> << <<"emoji", "ID">>, <<"emoji", "Name">> >>
      [] op = "MessageFormat" ->
            << <<"emoji", "ID">>, <<"emoji", "Name">>, <<"emoji", "Animated">>,
               <<"emoji", "ID">>, <<"emoji", "Name">> >>
      [] op = "MakeIntent" -> << <<"identify", "Intents">> >>

\* What a helper returns, from the values it has read.
HelperResult(op, fr) ==
    CASE op = "ChannelMention" -> ChannelMention([ID |-> fr["ID"]])
      [] op = "RoleMention" -> RoleMention([ID |-> fr["ID"]])
      [] op = "MemberMention" -> MemberMention([User |-> fr["User"]])
      [] op = "APIName" ->
            EmojiAPIName([ID |-> fr["ID"], Name |-> fr["Name"], Animated |-> FALSE])
      [] op = "MessageFormat" ->
            EmojiMessageFormat([ID |-> fr["ID"], Name |-> fr["Name"],
                                Animated |-> fr["Animated"]])
      [] op = "MakeIntent" -> MakeIntent(fr["Intents"])

\* The documents the decoders are given.
ConcurrentDocs(op) ==
    CASE op = "TimeStamps" ->
            {[top |-> "object", start |-> JNumber(FALSE, FromNat(5), <<7>>), end |-> JAbsent],
             [top |-> "object", start |-> JNumber(FALSE, FromNat(1), << >>),
              end |-> JNumber(FALSE, FromNat(2), << >>)],
             [top |-> "object", start |-> JString("soon"), end |-> JAbsent]}
      [] op = "TooManyRequests" ->
            {[top |-> "object", bucket |-> JString("bucket"),
              message |-> JString("slow down"),
              retry_after |-> JNumber(FALSE, FromNat(1), <<5>>)],
             [top |-> "object", bucket |-> JString("other"), message |-> JAbsent,
              retry_after |-> JNumber(FALSE, FromNat(2), << >>)],
             [top |-> "invalid", bucket |-> JAbsent, message |-> JAbsent,
              retry_after |-> JAbsent]}
      [] op = "Activity" ->
            {[top |-> "object", members |-> BaseActivityMembers],
             [top |-> "object",
              members |-> [BaseActivityMembers EXCEPT !["name"] = JString("other")]]}

\* The shadow struct each decoder declares, after json.Unmarshal into it.
ShadowOf(op, doc) ==
    CASE op = "TimeStamps" -> {TimeStampsShadow(doc)}
      [] op = "TooManyRequests" -> {TooManyRequestsShadow(doc)}
      [] op = "Activity" -> ActivityShadow(doc)

\* The receiver after the assignments from the shadow struct.
AssignedFrom(op, temp) ==
    CASE op = "TimeStamps" -> TimeStampsOf(temp)
      [] op = "TooManyRequests" ->
            {[Bucket |-> temp.Bucket, Message |-> temp.Message, RetryAfter |-> d] :
                d \in RetryAfterOf(temp.RetryAfter)}
      [] op = "Activity" ->
            {[CreatedAt |-> TimeUnix(Mul64(temp.CreatedAt, NanosPerMilli)),
              ApplicationID |-> temp.ApplicationID, Assets |-> temp.Assets,
              Details |-> temp.Details, Emoji |-> temp.Emoji, Flags |-> temp.Flags,
              Instance |-> temp.Instance, Name |-> temp.Name, Party |-> temp.Party,
              Secrets |-> temp.Secrets, State |-> temp.State,
              Timestamps |-> temp.Timestamps, Type |-> temp.Type, URL |-> temp.URL]}

ZeroReceiverOf(op) ==
    CASE op = "TimeStamps" -> ZeroTimeStamps
      [] op = "TooManyRequests" -> ZeroTooManyRequests
      [] op = "Activity" -> ZeroActivity
      [] OTHER -> << >>

\* One shadow struct for all calls, as a package-level variable would be.
ShadowSlotShared(p) == 1

\* The shadow struct is a local variable of the call: each call has its own.
ShadowSlot(p) == p

\* Whether a caller is in the middle of its call.
Running(p) == pc[p].at \notin {"start", "done"}

InitConcurrent ==
    /\ FlagsIdle
    /\ MentionIdle
    /\ DecodeIdle
    /\ FormatIdle
    /\ SortIdle
    /\ EventIdle
    /\ shared = SharedValues
    /\ call \in [Callers ->
                    [op : Helpers, doc : {NoDocument}]
                    \cup UNION {[op : {d}, doc : ConcurrentDocs(d)] : d \in Decoders}]
    /\ pc = [p \in Callers |-> [at |-> "start", loads |-> 0, overlapped |-> FALSE]]
    /\ frame = [p \in Callers |-> << >>]
    /\ shadow = [p \in Callers |-> << >>]
    /\ recv = [p \in Callers |-> ZeroReceiverOf(call[p].op)]
    /\ result = [p \in Callers |-> << >>]

\* The caller p moves to `at`, with n loads done; it has overlapped with the
\* other caller if that one is in the middle of its call now.
Move(p, at, n) ==
    pc' = [pc EXCEPT ![p] = [at |-> at, loads |-> n,
                             overlapped |-> @.overlapped
                                            \/ \E q \in Callers \ {p} : Running(q)]]

\* A helper reads the next field of its receiver or argument.
Load(p) ==
    /\ call[p].op \in Helpers
    /\ pc[p].at \in {"start", "load"}
    /\ pc[p].loads < Len(Loads(call[p].op))
    /\ LET path == Loads(call[p].op)[pc[p].loads + 1]
       IN  frame' = [frame EXCEPT ![p] = (path[2] :> shared[path[1]][path[2]]) @@ @]
    /\ Move(p, "load", pc[p].loads + 1)
    /\ UNCHANGED <<shared, call, shadow, recv, result>>
    /\ UNCHANGED <<flagVars, mentionVars, decodeVars, formatVars, sortVars, eventVars>>

\* A helper returns.
Return(p) ==
    /\ call[p].op \in Helpers
    /\ pc[p].at = "load"
    /\ pc[p].loads = Len(Loads(call[p].op))
    /\ result' = [result EXCEPT ![p] = <<HelperResult(call[p].op, frame[p])>>]
    /\ Move(p, "done", pc[p].loads)
    /\ UNCHANGED <<shared, call, frame, shadow, recv>>
    /\ UNCHANGED <<flagVars, mentionVars, decodeVars, formatVars, sortVars, eventVars>>

\* err := json.Unmarshal(b, &temp); if err != nil { return err }
Unmarshal(p) ==
    /\ call[p].op \in Decoders
    /\ pc[p].at = "start"
    /\ \E temp \in ShadowOf(call[p].op, call[p].doc) :
          /\ shadow' = [shadow EXCEPT ![ShadowSlot(p)] = <<temp>>]
          /\ IF temp.err # NoError
             THEN /\ result' = [result EXCEPT ![p] = <<temp.err>>]
                  /\ Move(p, "done", 0)
             ELSE /\ result' = result
                  /\ Move(p, "assign", 0)
    /\ UNCHANGED <<shared, call, frame, recv>>
    /\ UNCHANGED <<flagVars, mentionVars, decodeVars, formatVars, sortVars, eventVars>>

\* The assignments to the receiver from the shadow struct; return nil
Assign(p) ==
    /\ call[p].op \in Decoders
    /\ pc[p].at = "assign"
    /\ \E t \in AssignedFrom(call[p].op, shadow[ShadowSlot(p)][1]) :
          recv' = [recv EXCEPT ![p] = t]
    /\ result' = [result EXCEPT ![p] = <<NoError>>]
    /\ Move(p, "done", 0)
    /\ UNCHANGED <<shared, call, frame, shadow>>
    /\ UNCHANGED <<flagVars, mentionVars, decodeVars, formatVars, sortVars, eventVars>>

NextConcurrent ==
    \E p \in Callers :
        \/ Load(p)
        \/ Return(p)
        \/ Unmarshal(p)
        \/ Assign(p)

(***************************************************************************)
(* Specifications                                                          *)
(***************************************************************************)

SpecFlags == InitFlags /\ [][NextFlags]_vars

SpecMention == InitMention /\ [][NextMention]_vars

SpecDecode == InitDecode /\ [][NextDecode]_vars

SpecFormat == InitFormat /\ [][NextFormat]_vars

SpecConcurrent == InitConcurrent /\ [][NextConcurrent]_vars

SpecRoles == InitRoles /\ [][NextRoles]_vars

SpecEvents == InitEvents /\ [][NextEvents]_vars


(***************************************************************************)
(* Properties of the bit-flag tables                                       *)
(***************************************************************************)

\* The value the source gives the union a client is composing.
UnionValue(name) ==
    CASE name = "AllText" -> PermissionAllText
      [] name = "AllVoice" -> PermissionAllVoice
      [] name = "AllChannel" -> PermissionAllChannel
      [] name = "All" -> PermissionAll
      [] name = "AllWithoutPrivileged" -> IntentsAllWithoutPrivileged
      [] name = "AllIntents" -> IntentsAll

\* The bit positions of a list of flags, taken together.
BitsOfFlags(flags) == UNION {BitSet(flags[i]) : i \in 1..Len(flags)}

\* C1: each composite permission constant equals exactly the OR of its
\* documented member bits: a role granted the members one by one ends with
\* exactly the composite, never holds a bit outside it on the way, and the
\* composite's bits are the members' bits and no others.
C1_CompositeIsUnionOfMembers ==
    /\ \A name \in PermissionUnions :
          BitSet(UnionValue(name)) = BitsOfFlags(FlagsOf(name))
    /\ composing \in PermissionUnions =>
          /\ BitSet(rolePermissions) \subseteq BitSet(UnionValue(composing))
          /\ nGranted = Len(FlagsOf(composing)) =>
                rolePermissions = UnionValue(composing)

C1_Witness ==
    /\ composing = "All"
    /\ nGranted = Len(AllFlags)
    /\ rolePermissions = PermissionAll

\* C2: neither privileged intent bit is part of IntentsAllWithoutPrivileged,
\* and both are part of IntentsAll.
C2_PrivilegedBitsExcluded ==
    /\ BitAnd(IntentsAllWithoutPrivileged, IntentsGuildMembers) = << >>
    /\ BitAnd(IntentsAllWithoutPrivileged, IntentsGuildPresences) = << >>
    /\ BitAnd(IntentsAll, IntentsGuildMembers) = IntentsGuildMembers
    /\ BitAnd(IntentsAll, IntentsGuildPresences) = IntentsGuildPresences
    /\ identifyIntents = IntentsAllWithoutPrivileged =>
          /\ ~hasPermission(identifyIntents, IntentsGuildMembers)
          /\ ~hasPermission(identifyIntents, IntentsGuildPresences)

C2_Witness ==
    /\ composing = "AllWithoutPrivileged"
    /\ nGranted = Len(UnprivilegedFlags)
    /\ identifyIntents = IntentsAllWithoutPrivileged

\* C3: IntentsAllWithoutPrivileged is exactly the OR of the fourteen
\* non-privileged intents, IntentsAll is exactly that union OR the two
\* privileged intents, and the two differ in exactly the two privileged bits.
C3_IntentUnionsExact ==
    /\ BitSet(IntentsAllWithoutPrivileged) = BitsOfFlags(UnprivilegedFlags)
    /\ Cardinality(BitSet(IntentsAllWithoutPrivileged)) = 14
    /\ IntentsAll = OrAll(<<IntentsAllWithoutPrivileged, IntentsGuildMembers,
                            IntentsGuildPresences>>)
    /\ BitSet(IntentsAllWithoutPrivileged) \subseteq BitSet(IntentsAll)
    /\ BitSet(IntentsAll) \ BitSet(IntentsAllWithoutPrivileged)
          = BitSet(IntentsGuildMembers) \cup BitSet(IntentsGuildPresences)
    /\ Cardinality(BitSet(IntentsAll) \ BitSet(IntentsAllWithoutPrivileged)) = 2
    /\ (composing \in IntentUnions /\ nGranted = Len(FlagsOf(composing))) =>
          identifyIntents = UnionValue(composing)
    /\ (composing = "AllIntents" /\ nGranted = Len(UnprivilegedFlags)) =>
          identifyIntents = IntentsAllWithoutPrivileged

C3_Witness ==
    /\ composing = "AllIntents"
    /\ nGranted = Len(UnprivilegedFlags) + Len(PrivilegedFlags)
    /\ identifyIntents = IntentsAll

\* C10: a permission check answers true exactly when every bit of its `bit`
\* argument is set in the mask; a mask holding only some of the bits of a
\* multi-bit argument answers false.
C10_HasPermissionIffAllBits ==
    answer # << >> =>
        (answer[1] <=> \A i \in BitSet(query.bit) : BitAt(query.mask, i) = 1)

C10_Witness ==
    /\ answer = <<FALSE>>
    /\ Cardinality(BitSet(query.bit)) > 1
    /\ BitSet(query.bit) \cap BitSet(query.mask) # {}


(***************************************************************************)
(* Properties of the mention helpers                                       *)
(***************************************************************************)

\* C7: for every identifier string, of any shape, a Mention call that returns
\* gives "<#" + id + ">" for a channel, "<@&" + id + ">" for a role and
\* "<@!" + id + ">" for a member whose User has that ID.
C7_MentionFormat ==
    /\ mention.of = "Channel" =>
          /\ ~mention.panicked
          /\ mention.value = <<"<", "#">> \o channel.ID \o <<">">>
    /\ mention.of = "Role" =>
          /\ ~mention.panicked
          /\ mention.value = <<"<", "@", "&">> \o role.ID \o <<">">>
    /\ (mention.of = "Member" /\ member.User # << >>) =>
          /\ ~mention.panicked
          /\ mention.value = <<"<", "@", "!">> \o member.User[1].ID \o <<">">>

C7_Witness ==
    /\ mention.of = "Member"
    /\ member.User # << >>
    /\ member.User[1].ID = <<"%", "s">>
    /\ mention.value = <<"<", "@", "!", "%", "s", ">">>

\* C8: Mention has no failure mode: every Mention call on a Channel, Role or
\* Member, a Member without a User included, returns a string.
C8_MentionNeverFails ==
    mention.of # "none" => ~mention.panicked


(***************************************************************************)
(* Properties of the decoders                                              *)
(***************************************************************************)

\* A TooManyRequests document with a non-negative retry_after number has been
\* decoded without an error.
DecodedRetryAfter ==
    /\ decoder = "TooManyRequests"
    /\ err = NoError
    /\ wire.top = "object"
    /\ wire.retry_after.t = "number"
    /\ ~wire.retry_after.v.neg

\* The bits of the float x to the right of the binary point, as they stand
\* in x's mantissa: its fractional part is FracMan(x) * 2^x.exp.
FracMan(x) ==
    IF x.exp >= 0 THEN << >>
    ELSE Norm(SubSeq(x.man, 1, IF Len(x.man) < 0 - x.exp THEN Len(x.man) ELSE 0 - x.exp))

\* The whole milliseconds of the float64 product of x's fractional part and 1000.
FracMillis(x) ==
    TruncMag(RoundToFloat64(FALSE, Mul(FracMan(x), FromNat(1000)), x.exp, FALSE))

\* The whole seconds of x plus the milliseconds of its fraction, in
\* nanoseconds, as an unbounded integer.
SplitNanos(x) ==
    Signed(FALSE, Add(Mul(TruncMag(x), Second.mag), Mul(FracMillis(x), Millisecond.mag)))

SourceNanos(num) ==
    Add(Mul(num.int, Second.mag),
        Mul(FromDigits(num.frac, 10), BasePow(10, 9 - Len(num.frac))))

\* |x - y| on naturals.
AbsDiff(x, y) == IF LessBits(x, y) THEN Sub(y, x) ELSE Sub(x, y)

\* C5: for every non-negative retry_after (taken here only as far as the
\* int64 nanoseconds reach, so that no overflow is involved), RetryAfter
\* differs from the source by less than one millisecond, a source of a whole
\* number of milliseconds decodes to exactly that many milliseconds, and a
\* source with a fraction of a millisecond or more does not decode to its
\* whole seconds alone.
C5_RoundTripToMillisecond ==
    (DecodedRetryAfter
        /\ FitsInt64(Signed(FALSE, Add(SourceNanos(wire.retry_after.v), Millisecond.mag)))) =>
        LET num    == wire.retry_after.v
            source == SourceNanos(num)
        IN  /\ ~tmr.RetryAfter.neg
            /\ LessBits(AbsDiff(source, tmr.RetryAfter.mag), Millisecond.mag)
            /\ Len(num.frac) <= 3 => tmr.RetryAfter.mag = source
            /\ LeqBits(Add(Mul(num.int, Second.mag), Millisecond.mag), source) =>
                  tmr.RetryAfter.mag # Mul(num.int, Second.mag)

\* A TimeStamps document has been decoded without an error.
DecodedStamps ==
    /\ decoder = "TimeStamps"
    /\ err = NoError
    /\ wire.top = "object"

\* The numbers of the decoded document, each with the field it went to.
StampPairs ==
    {p \in {[jv |-> wire.start, got |-> ts.StartTimestamp],
            [jv |-> wire.end, got |-> ts.EndTimestamp]} : p.jv.t = "number"}

\* Whether the digits after the point are all zero.
RECURSIVE AllZero(_)
AllZero(ds) == ds = << >> \/ (Head(ds) = 0 /\ AllZero(Tail(ds)))

\* 2^53: integers below it are float64 values.
TwoTo53 == Shl(<<1>>, MantissaBits)

\* Whether the literal int.frac lies further below int + 1 than half the
\* spacing of the float64 values there: 1 - 0.frac > 2^(n - 54) for an
\* integer part of n bits.
ClearOfNextInteger(num) ==
    LET scale == BasePow(10, Len(num.frac))
    IN  LessBits(scale, Shl(Sub(scale, FromDigits(num.frac, 10)),
                            MantissaBits + 1 - Len(num.int)))

\* C6: a start or end of magnitude below 2^53 is truncated, never rounded:
\* an integer-valued v decodes to exactly v, and a non-negative v + r with
\* 0 < r < 1 and 1 - r more than half the float64 spacing at v decodes to v,
\* also when r >= 0.5 (1609459200500.7 gives 1609459200500).
C6_TruncatesBelowTwoTo53 ==
    DecodedStamps =>
        \A p \in StampPairs :
            LET num == p.jv.v
            IN  LessBits(num.int, TwoTo53) =>
                  /\ AllZero(num.frac) => p.got = Signed(num.neg, num.int)
                  /\ (~num.neg /\ ~AllZero(num.frac) /\ ClearOfNextInteger(num)) =>
                        p.got = Signed(FALSE, num.int)

C6_Witness ==
    /\ DecodedStamps
    /\ wire.start = JNumber(FALSE, Dec(<<1,6,0,9,4,5,9,2,0,0,5,0,0>>), <<7>>)
    /\ ts.StartTimestamp = Signed(FALSE, Dec(<<1,6,0,9,4,5,9,2,0,0,5,0,0>>))

\* C6 as the specification states it: every integer-valued start or end v
\* decodes to exactly v and every non-negative v + r with 0 < r < 1 decodes
\* to v.
C6_TruncatesEveryValue ==
    DecodedStamps =>
        \A p \in StampPairs :
            LET num == p.jv.v
            IN  /\ AllZero(num.frac) => p.got = Signed(num.neg, num.int)
                /\ (~num.neg /\ ~AllZero(num.frac)) => p.got = Signed(FALSE, num.int)

\* Whether a JSON value has the type a field of the given kind takes.
RECURSIVE WellTyped(_, _)
WellTyped(jv, kind) ==
    CASE kind = "string" -> jv.t = "string"
      [] kind = "float" -> jv.t = "number"
      [] kind = "int" -> /\ jv.t = "number"
                         /\ jv.v.frac = << >>
                         /\ FitsInt64(Signed(jv.v.neg, jv.v.int))
      [] kind = "bool" -> jv.t = "bool"
      [] kind = "struct" -> jv.t = "object"
      [] kind = "timestamps" ->
            /\ jv.t = "object"
            /\ jv.v.top = "object"
            /\ \A x \in {jv.v.start, jv.v.end} : Skipped(x) \/ WellTyped(x, "float")

\* A value is malformed for a field when it is there, is not null, and has
\* another type than the field's.
MalformedValue(jv, kind) ==
    IF kind = "timestamps" THEN jv.t # "absent" /\ jv.t # "null" /\ ~WellTyped(jv, kind)
    ELSE ~Skipped(jv) /\ ~WellTyped(jv, kind)

\* The kind of value each key of an activity takes.
ActivityKind(key) ==
    CASE key \in {"name", "url", "application_id", "state", "details"} -> "string"
      [] key \in {"type", "created_at", "flags"} -> "int"
      [] key = "instance" -> "bool"
      [] key = "timestamps" -> "timestamps"
      [] OTHER -> "struct"

\* Whether the document on the wire is malformed for the decoder it is given
\* to: no JSON at all, no object (and not null), or an object with a
\* malformed value under one of the decoder's keys.
MalformedWire ==
    \/ wire.top \notin {"object", "null"}
    \/ /\ wire.top = "object"
       /\ CASE decoder = "TimeStamps" ->
                  MalformedValue(wire.start, "float") \/ MalformedValue(wire.end, "float")
            [] decoder = "TooManyRequests" ->
                  \/ MalformedValue(wire.bucket, "string")
                  \/ MalformedValue(wire.message, "string")
                  \/ MalformedValue(wire.retry_after, "float")
            [] decoder = "Activity" ->
                  \E key \in DOMAIN wire.members :
                      MalformedValue(wire.members[key], ActivityKind(key))

\* C9: a decoder given a malformed document returns the deserialization
\* error, a syntax error or a type error, never success; and it returns
\* success for every document that is not malformed.
C9_MalformedGivesError ==
    err # "pending" =>
        /\ MalformedWire => err \in {SyntaxError, UnmarshalTypeError}
        /\ ~MalformedWire => err = NoError

C9_Witness ==
    /\ decoder = "TimeStamps"
    /\ wire.top = "object"
    /\ wire.start = JString("soon")
    /\ err = UnmarshalTypeError


\* An Activity document whose `type` is an integer literal in the range of
\* Go's int has been given to the decoder.
IntegerTypeDecoded ==
    /\ decoder = "Activity"
    /\ err # "pending"
    /\ wire.top = "object"
    /\ WellTyped(wire.members["type"], "int")

\* C11: every integer `type`, one outside the ActivityType constants 0..5
\* included, is accepted (no error when the rest of the document is well
\* formed) and stored unchanged in Activity.Type.
C11_UnknownTypePassedThrough ==
    IntegerTypeDecoded =>
        LET type == wire.members["type"].v
        IN  /\ (\A key \in DOMAIN wire.members \ {"type"} :
                    ~MalformedValue(wire.members[key], ActivityKind(key)))
                => err = NoError
            /\ err = NoError => activity.Type = Signed(type.neg, type.int)

C11_Witness ==
    /\ IntegerTypeDecoded
    /\ wire.members["type"].v.int = FromNat(99)
    /\ 99 \notin KnownActivityTypes
    /\ err = NoError
    /\ activity.Type = Signed(FALSE, FromNat(99))


\* A TooManyRequests document has been decoded without an error.
DecodedTooManyRequests ==
    /\ decoder = "TooManyRequests"
    /\ err = NoError
    /\ wire.top = "object"

\* C13: a retry_after of zero (0, 0.0, 0.00, ...) gives a RetryAfter of
\* exactly zero, and so does an object without the retry_after key, whatever
\* the receiver held before.
C13_ZeroGivesZero ==
    (DecodedTooManyRequests
        /\ \/ wire.retry_after.t = "absent"
           \/ /\ wire.retry_after.t = "number"
              /\ wire.retry_after.v.int = << >>
              /\ AllZero(wire.retry_after.v.frac)) =>
        tmr.RetryAfter = IntZero

C13_Witness ==
    /\ DecodedTooManyRequests
    /\ wire.retry_after = JNumber(FALSE, FromNat(0), <<0>>)
    /\ prior = UsedTooManyRequests
    /\ tmr.RetryAfter = IntZero

C13_WitnessAbsent ==
    /\ DecodedTooManyRequests
    /\ wire.retry_after = JAbsent
    /\ prior = UsedTooManyRequests
    /\ tmr.RetryAfter = IntZero

\* The magnitude of a number literal, as a literal of its own.
Magnitude(num) == [neg |-> FALSE, int |-> num.int, frac |-> num.frac]

C14_WitnessStamp ==
    /\ DecodedStamps
    /\ wire.start = JNumber(TRUE, Dec(<<1,6,0,9,4,5,9,2,0,0,5,0,0>>), <<7>>)
    /\ ts.StartTimestamp = Signed(TRUE, Dec(<<1,6,0,9,4,5,9,2,0,0,5,0,0>>))


\* What a well-typed value on the wire says, by the kind of its field: the
\* value itself, or the kind's zero when the key is missing or null.
WireString(jv) == IF jv.t = "string" THEN jv.v ELSE ""
WireInt(jv) == IF jv.t = "number" THEN Signed(jv.v.neg, jv.v.int) ELSE IntZero
WireBool(jv) == IF jv.t = "bool" THEN jv.v ELSE FALSE
WireStruct(jv) == IF jv.t = "object" THEN jv.v ELSE ZeroStruct

\* The members of the document, all absent when it is no object.
WireMember(key) == IF wire.top = "object" THEN wire.members[key] ELSE JAbsent

\* An Activity document has been decoded without an error.
DecodedActivity ==
    /\ decoder = "Activity"
    /\ err = NoError

Receiver ==
    CASE decoder = "TimeStamps" -> ts
      [] decoder = "TooManyRequests" -> tmr
      [] decoder = "Activity" -> activity

\* What decoding the document into a zero receiver can give.
FromZeroReceiver ==
    CASE decoder = "TimeStamps" ->
            {o.t : o \in TimeStampsUnmarshalJSON(ZeroTimeStamps, wire)}
      [] decoder = "TooManyRequests" ->
            {o.t : o \in TooManyRequestsUnmarshalJSON(ZeroTooManyRequests, wire)}
      [] decoder = "Activity" ->
            {o.a : o \in ActivityUnmarshalJSON(ZeroActivity, wire)}

\* The keys of each decoder with the fields they go to.
KeyFields ==
    CASE decoder = "TimeStamps" ->
            {<<"end", "EndTimestamp">>, <<"start", "StartTimestamp">>}
      [] decoder = "TooManyRequests" ->
            {<<"bucket", "Bucket">>, <<"message", "Message">>,
             <<"retry_after", "RetryAfter">>}
      [] decoder = "Activity" ->
            {<<"name", "Name">>, <<"type", "Type">>, <<"url", "URL">>,
             <<"created_at", "CreatedAt">>, <<"application_id", "ApplicationID">>,
             <<"state", "State">>, <<"details", "Details">>,
             <<"timestamps", "Timestamps">>, <<"emoji", "Emoji">>,
             <<"party", "Party">>, <<"assets", "Assets">>, <<"secrets", "Secrets">>,
             <<"instance", "Instance">>, <<"flags", "Flags">>}

\* The value the document holds under a key.
WireValue(key) ==
    IF wire.top # "object" THEN JAbsent
    ELSE IF decoder = "Activity" THEN wire.members[key]
    ELSE wire[key]

\* The zero value of each receiver type.
ZeroReceiver ==
    CASE decoder = "TimeStamps" -> ZeroTimeStamps
      [] decoder = "TooManyRequests" -> ZeroTooManyRequests
      [] decoder = "Activity" -> ZeroActivity

\* C16: after a successful decode every field of the receiver is a function
\* of the document alone: the receiver is what decoding into a zero receiver
\* gives, whatever it held before; a key missing from the document leaves
\* its field at the zero value, not at the previous value, except
\* Activity.CreatedAt, which then is the Unix epoch, time.Unix(0, 0).
C16_FunctionOfInputAlone ==
    (decoder # "none" /\ err = NoError) =>
        /\ Receiver \in FromZeroReceiver
        /\ \A kf \in KeyFields :
              WireValue(kf[1]).t = "absent" =>
                 Receiver[kf[2]] = IF kf[2] = "CreatedAt" THEN TimeUnix(IntZero)
                                   ELSE ZeroReceiver[kf[2]]

C16_Witness ==
    /\ decoder = "Activity"
    /\ err = NoError
    /\ prior = UsedActivity
    /\ wire.top = "object"
    /\ wire.members["details"] = JAbsent
    /\ prior.Details = "old"
    /\ activity.Details = ""

\* C16 as the specification states it: a key missing from the document
\* leaves its field at the zero value of the field, CreatedAt included.
C16_AbsentKeyGivesZeroValue ==
    (decoder # "none" /\ err = NoError) =>
        /\ Receiver \in FromZeroReceiver
        /\ \A kf \in KeyFields :
              WireValue(kf[1]).t = "absent" => Receiver[kf[2]] = ZeroReceiver[kf[2]]


(***************************************************************************)
(* Properties of MakeIntent                                                *)
(***************************************************************************)

\* C15: MakeIntent is a no-op: for every Intent value, IntentsNone and values
\* with undefined bits included, MakeIntent(i) = i, and so
\* MakeIntent(MakeIntent(i)) = MakeIntent(i).
C15_MakeIntentIsNoOp ==
    intentMade.made =>
        /\ intentMade.once = intentMade.arg
        /\ intentMade.twice = intentMade.once

C15_Witness ==
    /\ intentMade.made
    /\ BitAt(intentMade.arg, 20) = 1
    /\ BitAnd(intentMade.arg, IntentsAll) # intentMade.arg
    /\ intentMade.once = intentMade.arg


(***************************************************************************)
(* Properties of the Emoji and Guild helpers                               *)
(***************************************************************************)

\* C18: APIName is Name + ":" + ID when ID and Name are both non-empty, Name
\* alone when only Name is non-empty, and ID otherwise (the empty string
\* when both are empty); Animated never affects it.
C18_APIName ==
    formatted.of = "APIName" =>
        LET e == formatted.on
        IN  /\ (e.ID # << >> /\ e.Name # << >>) =>
                  formatted.value = e.Name \o <<":">> \o e.ID
            /\ (e.ID = << >> /\ e.Name # << >>) => formatted.value = e.Name
            /\ e.Name = << >> => formatted.value = e.ID
            /\ formatted.value = EmojiAPIName([e EXCEPT !.Animated = ~e.Animated])
            /\ emoji = e

C18_Witness ==
    /\ formatted.of = "APIName"
    /\ formatted.on = [ID |-> <<"7">>, Name |-> <<"o", "k">>, Animated |-> TRUE]
    /\ formatted.value = <<"o", "k", ":", "7">>

\* C19: MessageFormat is "<a:" + Name + ":" + ID + ">" when ID and Name are
\* both non-empty and Animated is true, "<:" + Name + ":" + ID + ">" when
\* both are non-empty and Animated is false, and otherwise exactly APIName,
\* without angle brackets, whatever Animated is.
C19_MessageFormat ==
    formatted.of = "MessageFormat" =>
        LET e == formatted.on
        IN  /\ (e.ID # << >> /\ e.Name # << >> /\ e.Animated) =>
                  formatted.value = <<"<", "a", ":">> \o e.Name \o <<":">> \o e.ID \o <<">">>
            /\ (e.ID # << >> /\ e.Name # << >> /\ ~e.Animated) =>
                  formatted.value = <<"<", ":">> \o e.Name \o <<":">> \o e.ID \o <<">">>
            /\ (e.ID = << >> \/ e.Name = << >>) =>
                  /\ formatted.value = EmojiAPIName(e)
                  /\ formatted.value = IF e.Name # << >> THEN e.Name ELSE e.ID
            /\ emoji = e

C19_Witness ==
    /\ formatted.of = "MessageFormat"
    /\ formatted.on = [ID |-> <<"7">>, Name |-> <<"o", "k">>, Animated |-> TRUE]
    /\ formatted.value = <<"<", "a", ":", "o", "k", ":", "7", ">">>

\* C20: IconURL is the empty string exactly when Icon is empty; otherwise it
\* is the animated-icon endpoint for (ID, Icon) exactly when Icon starts with
\* "a_", and the static-icon endpoint for (ID, Icon) if not.  BannerURL is
\* the empty string when Banner is empty and the banner endpoint for
\* (ID, Banner) otherwise.  Neither changes the guild.
C20_GuildURLs ==
    /\ formatted.of = "IconURL" =>
          LET g        == formatted.on
              animated == Len(g.Icon) >= 2 /\ g.Icon[1] = "a" /\ g.Icon[2] = "_"
          IN  /\ formatted.value = << >> <=> g.Icon = << >>
              /\ (g.Icon # << >> /\ animated) =>
                    formatted.value = <<"EndpointGuildIconAnimated", g.ID, g.Icon>>
              /\ (g.Icon # << >> /\ ~animated) =>
                    formatted.value = <<"EndpointGuildIcon", g.ID, g.Icon>>
              /\ guild = g
    /\ formatted.of = "BannerURL" =>
          LET g == formatted.on
          IN  /\ g.Banner = << >> => formatted.value = << >>
              /\ g.Banner # << >> =>
                    formatted.value = <<"EndpointGuildBanner", g.ID, g.Banner>>
              /\ guild = g

C20_Witness ==
    /\ formatted.of = "IconURL"
    /\ formatted.on.Icon = <<"a", "_", "f">>
    /\ formatted.value = <<"EndpointGuildIconAnimated", formatted.on.ID, <<"a", "_", "f">>>>

\* The outcomes of a call made with no other caller running: the result
\* returned and the receiver afterwards.
RunAlone(c) ==
    CASE c.op = "ChannelMention" -> {<<ChannelMention(SharedValues.channel), << >> >>}
      [] c.op = "RoleMention" -> {<<RoleMention(SharedValues.role), << >> >>}
      [] c.op = "MemberMention" -> {<<MemberMention(SharedValues.member), << >> >>}
      [] c.op = "APIName" -> {<<EmojiAPIName(SharedValues.emoji), << >> >>}
      [] c.op = "MessageFormat" -> {<<EmojiMessageFormat(SharedValues.emoji), << >> >>}
      [] c.op = "MakeIntent" -> {<<MakeIntent(SharedValues.identify.Intents), << >> >>}
      [] c.op = "TimeStamps" ->
            {<<o.err, o.t>> : o \in TimeStampsUnmarshalJSON(ZeroTimeStamps, c.doc)}
      [] c.op = "TooManyRequests" ->
            {<<o.err, o.t>> : o \in TooManyRequestsUnmarshalJSON(ZeroTooManyRequests, c.doc)}
      [] c.op = "Activity" ->
            {<<o.err, o.a>> : o \in ActivityUnmarshalJSON(ZeroActivity, c.doc)}

\* C12: under every interleaving of two concurrent callers, helpers on the
\* shared values and decoders on receivers of their own, the shared values
\* are never changed, and each call that has returned has the result, and
\* has left its receiver, as the same call does when run alone.
C12_SafeUnderInterleaving ==
    ConcIdle
    \/ /\ shared = SharedValues
       /\ \A p \in Callers :
             pc[p].at = "done" =>
                \E o \in RunAlone(call[p]) : result[p] = <<o[1]>> /\ recv[p] = o[2]

\* Two decoders of different documents have both returned, each having run
\* while the other was in the middle of its call.
C12_Witness ==
    /\ ~ConcIdle
    /\ call[1].op = "TooManyRequests"
    /\ call[2].op = "TooManyRequests"
    /\ call[1].doc # call[2].doc
    /\ \A p \in Callers : pc[p].at = "done" /\ pc[p].overlapped /\ result[p] = <<NoError>>
    /\ recv[1] # recv[2]

\* A helper and a decoder have both returned after overlapping.
C12_WitnessHelper ==
    /\ ~ConcIdle
    /\ call[1].op = "MessageFormat"
    /\ call[2].op = "Activity"
    /\ \A p \in Callers : pc[p].at = "done" /\ pc[p].overlapped

\* How many times each role occurs in a slice.
Occurrences(r) == [v \in RoleValues |-> Cardinality({k \in DOMAIN r : r[k] = v})]

\* No adjacent pair (k, k+1) of the slice has Less(k+1, k).
NoAdjacentLess(r) == \A k \in Indices(r) : k + 1 \in Indices(r) => ~RolesLess(r, k + 1, k)

\* C21: Less(i, j) is true exactly when r[i].Position > r[j].Position, and is
\* a strict weak order on the slice (irreflexive, asymmetric, transitive,
\* equal positions mutually not less, incomparability transitive); Len is
\* the number of roles; Swap(i, j) exchanges elements i and j and nothing
\* else; after any Swap steps the slice holds the same roles as often as
\* before, and when no adjacent pair is out of order its Positions are
\* non-increasing.
C21_RolesOrderedByDescendingPosition ==
    LET r == sortCall.before
        i == sortCall.i
        j == sortCall.j
        I == Indices(roles)
    IN  /\ sortCall.of = "Less" =>
              /\ sortCall.value = <<r[i + 1].Position > r[j + 1].Position>>
              /\ roles = r
        /\ sortCall.of = "Len" =>
              /\ sortCall.value = <<Cardinality(DOMAIN r)>>
              /\ roles = r
        /\ sortCall.of = "Swap" =>
              /\ DOMAIN roles = DOMAIN r
              /\ roles[i + 1] = r[j + 1]
              /\ roles[j + 1] = r[i + 1]
              /\ \A k \in DOMAIN r \ {i + 1, j + 1} : roles[k] = r[k]
        /\ \A a \in I : ~RolesLess(roles, a, a)
        /\ \A a, b \in I : RolesLess(roles, a, b) => ~RolesLess(roles, b, a)
        /\ \A a, b, c \in I :
              RolesLess(roles, a, b) /\ RolesLess(roles, b, c) => RolesLess(roles, a, c)
        /\ \A a, b \in I :
              roles[a + 1].Position = roles[b + 1].Position =>
                 ~RolesLess(roles, a, b) /\ ~RolesLess(roles, b, a)
        /\ \A a, b, c \in I :
              /\ ~RolesLess(roles, a, b) /\ ~RolesLess(roles, b, a)
              /\ ~RolesLess(roles, b, c) /\ ~RolesLess(roles, c, b)
              => ~RolesLess(roles, a, c) /\ ~RolesLess(roles, c, a)
        /\ Occurrences(roles) = Occurrences(rolesBefore)
        /\ NoAdjacentLess(roles) =>
              \A a, b \in I : a < b => roles[a + 1].Position >= roles[b + 1].Position

\* A slice of three roles with a tie, given out of order, has been brought by
\* Swap steps to an order with no adjacent pair out of order.
C21_Witness ==
    /\ sortCall.of = "Swap"
    /\ RolesLen(roles) = 3
    /\ ~NoAdjacentLess(rolesBefore)
    /\ NoAdjacentLess(roles)
    /\ \E a, b \in Indices(roles) : a # b /\ roles[a + 1].Position = roles[b + 1].Position
    /\ roles[1].Position > roles[3].Position

\* Less has been called on a pair in descending order and said yes.
C21_WitnessLess ==
    /\ sortCall.of = "Less"
    /\ sortCall.value = <<TRUE>>
    /\ sortCall.i > sortCall.j

\* The four named statuses.
NamedStatuses ==
    {GuildScheduledEventStatusScheduled, GuildScheduledEventStatusActive,
     GuildScheduledEventStatusCompleted, GuildScheduledEventStatusCanceled}

C23_ReceiverUnchangedOnError ==
    err \notin {"pending", NoError} =>
        /\ Receiver = prior
        /\ decoder # "TimeStamps" => ts = ZeroTimeStamps
        /\ decoder # "TooManyRequests" => tmr = ZeroTooManyRequests
        /\ decoder # "Activity" => activity = ZeroActivity

\* An Activity that held earlier contents was given an object with a member
\* of the wrong type among well-typed ones, and still holds those contents.
C23_Witness ==
    /\ decoder = "Activity"
    /\ prior = UsedActivity
    /\ wire.top = "object"
    /\ err = UnmarshalTypeError
    /\ \E key \in DOMAIN wire.members : wire.members[key].t = "string"
    /\ activity = UsedActivity

\* The same for a TimeStamps whose document's end is of the wrong type while
\* its start is a number.
C23_WitnessTimeStamps ==
    /\ decoder = "TimeStamps"
    /\ prior = UsedTimeStamps
    /\ wire.top = "object"
    /\ wire.start.t = "number"
    /\ err = UnmarshalTypeError
    /\ ts = UsedTimeStamps

\* The primitive permission constants, by name.
PrimitivePermissions ==
    [ReadMessages |-> PermissionReadMessages,
     SendMessages |-> PermissionSendMessages,
     SendTTSMessages |-> PermissionSendTTSMessages,
     ManageMessages |-> PermissionManageMessages,
     EmbedLinks |-> PermissionEmbedLinks,
     AttachFiles |-> PermissionAttachFiles,
     ReadMessageHistory |-> PermissionReadMessageHistory,
     MentionEveryone |-> PermissionMentionEveryone,
     UseExternalEmojis |-> PermissionUseExternalEmojis,
     UseSlashCommands |-> PermissionUseSlashCommands,
     VoicePrioritySpeaker |-> PermissionVoicePrioritySpeaker,
     VoiceStreamVideo |-> PermissionVoiceStreamVideo,
     VoiceConnect |-> PermissionVoiceConnect,
     VoiceSpeak |-> PermissionVoiceSpeak,
     VoiceMuteMembers |-> PermissionVoiceMuteMembers,
     VoiceDeafenMembers |-> PermissionVoiceDeafenMembers,
     VoiceMoveMembers |-> PermissionVoiceMoveMembers,
     VoiceUseVAD |-> PermissionVoiceUseVAD,
     VoiceRequestToSpeak |-> PermissionVoiceRequestToSpeak,
     ChangeNickname |-> PermissionChangeNickname,
     ManageNicknames |-> PermissionManageNicknames,
     ManageRoles |-> PermissionManageRoles,
     ManageWebhooks |-> PermissionManageWebhooks,
     ManageEmojis |-> PermissionManageEmojis,
     CreateInstantInvite |-> PermissionCreateInstantInvite,
     KickMembers |-> PermissionKickMembers,
     BanMembers |-> PermissionBanMembers,
     Administrator |-> PermissionAdministrator,
     ManageChannels |-> PermissionManageChannels,
     ManageServer |-> PermissionManageServer,
     AddReactions |-> PermissionAddReactions,
     ViewAuditLogs |-> PermissionViewAuditLogs,
     ViewChannel |-> PermissionViewChannel,
     ViewGuildInsights |-> PermissionViewGuildInsights]

\* C24: every primitive permission constant has exactly one bit set, and two
\* differently named ones have different bits, except PermissionReadMessages,
\* which is PermissionViewChannel (0x400); so a role granted the eight
\* differently named members of PermissionAllText one by one holds one more
\* bit after each grant.
C24_PrimitivesAreDistinctSingleBits ==
    LET P == PrimitivePermissions
    IN  /\ \A n \in DOMAIN P : Cardinality(BitSet(P[n])) = 1
        /\ \A n, m \in DOMAIN P :
              n # m /\ P[n] = P[m] => {n, m} = {"ReadMessages", "ViewChannel"}
        /\ P["ReadMessages"] = P["ViewChannel"]
        /\ BitSet(P["ViewChannel"]) = {10}
        /\ composing = "AllText" => Cardinality(BitSet(rolePermissions)) = nGranted

\* All eight members of PermissionAllText have been granted: eight bits.
C24_Witness ==
    /\ composing = "AllText"
    /\ nGranted = 8
    /\ Cardinality(BitSet(rolePermissions)) = 8
    /\ BitSet(rolePermissions) = {10, 11, 12, 13, 14, 15, 16, 17}

\* C25: every bit of PermissionAllText and of PermissionAllVoice is a bit of
\* PermissionAllChannel, every bit of PermissionAllChannel is a bit of
\* PermissionAll, and PermissionAllText & PermissionAllVoice is
\* PermissionViewChannel alone; so a role that holds all of a composite holds
\* all of every composite below it.
C25_CompositesFormHierarchy ==
    LET Holds(c) == BitAnd(rolePermissions, c) = c
    IN  /\ BitSet(PermissionAllText) \subseteq BitSet(PermissionAllChannel)
        /\ BitSet(PermissionAllVoice) \subseteq BitSet(PermissionAllChannel)
        /\ BitSet(PermissionAllChannel) \subseteq BitSet(PermissionAll)
        /\ BitAnd(PermissionAllText, PermissionAllVoice) = PermissionViewChannel
        /\ BitSet(PermissionAllText) \cap BitSet(PermissionAllVoice) = {10}
        /\ composing \in PermissionUnions =>
              /\ Holds(PermissionAll) => Holds(PermissionAllChannel)
              /\ Holds(PermissionAllChannel) =>
                    Holds(PermissionAllText) /\ Holds(PermissionAllVoice)
              /\ Holds(PermissionAllText) /\ Holds(PermissionAllVoice)
                    => Holds(PermissionViewChannel)

\* A role being granted PermissionAll holds all of PermissionAllChannel, and
\* so of PermissionAllText and PermissionAllVoice, but not yet PermissionAll.
C25_Witness ==
    /\ composing = "All"
    /\ BitAnd(rolePermissions, PermissionAllChannel) = PermissionAllChannel
    /\ BitAnd(rolePermissions, PermissionAllText) = PermissionAllText
    /\ BitAnd(rolePermissions, PermissionAllVoice) = PermissionAllVoice
    /\ BitAnd(rolePermissions, PermissionAll) # PermissionAll

=============================================================================
